---- MODULE Spec2Model ----
(***************************************************************************)
(* Model of the freebeeZ automation scripts.                               *)
(*                                                                         *)
(* Every script of the repository is a program of its own, started from    *)
(* its main(): Init picks the program that is started (prog) and its       *)
(* input, and the actions of that program then run it step by step.        *)
(*   "advanced"    python_scripts/advanced_playwright_automation.py        *)
(*   "backup"      backup/playwright_automation.py                         *)
(*   "intelligent" python_scripts/intelligent_captcha_solver.py            *)
(*   "aisolver"    python_scripts/ai_captcha_solver.py                     *)
(* A run is one sequential control flow; pc is its position, and an        *)
(* action of the model is the code between two suspension points.          *)
(***************************************************************************)
EXTENDS Integers, Sequences, FiniteSets, TLC

VARIABLES
    prog,         \* the script that was started
    actions,      \* config['actions']
    pc,           \* position of the control flow
    i,            \* 1-based cursor of the action loop
    browser,      \* self.browser is set (truthy)
    closeCount,   \* number of calls of browser.close()
    captcha,      \* page state: a captcha element is on the page
    results,      \* PlaywrightAutomator.results
    logs,         \* AdvancedPlaywrightAutomation.logs
    screenshots,  \* AdvancedPlaywrightAutomation.screenshots
    reports,      \* the dicts returned by run_automation / run
    cancelled,    \* the run's task was cancelled at a suspension point
    trace,        \* observation: obstacle checks and execute_action calls, in order
    argv,         \* what sys.argv holds for main: no argument, bad JSON, a configuration
    printed,      \* the dicts main printed on stdout
    escaped,      \* the exception that left main, "none" if none did
    extracted_data, \* the local extracted_data of run_automation
    last,         \* observation: browser operations and target field of the latest execute_action
    keys,         \* solver credentials read from the environment
    ai_model,     \* argument of IntelligentCaptchaSolver.solve_captcha
    captcha_type, \* argument of AICaptchaSolver.solve_captcha
    calls,        \* observation: solver candidates invoked, in order, with outcome
    netCalls,     \* observation: adapters that sent a network request
    polls,        \* observation: status polls and last answer of the latest service adapter
    solved,       \* the dicts returned by the solver entry point
    image,        \* what the analysis of the screenshot given to CaptchaDetector finds
    detection,    \* the dicts returned by detect_from_screenshot
    contact,      \* the kind of contact_info given to NotificationSystem.send
    chan,         \* 1-based cursor of the channel loop of send
    sendLog,      \* observation: the calls of _send_via_channel, in order
    sendResult,   \* the values returned by send
    cur,          \* with two runs in one event loop: the run that is running (1 or 2)
    other,        \* with two runs: the attributes and position of the suspended run
    ocr,          \* the text pytesseract reads for solve_math_captcha
    instances,    \* USER_SERVICE_INSTANCES[DEFAULT_USER_ID]
    response,     \* observation: the latest request of the hub and its status code
    nreq,         \* number of requests the hub has handled
    services,     \* the list given to deduplicate_services
    unique        \* the lists deduplicate_services returned

vars == <<prog, actions, pc, i, browser, closeCount, captcha, results, logs,
          screenshots, reports, cancelled, trace, argv, printed, escaped,
          extracted_data, last, keys, ai_model, captcha_type,
          calls, netCalls, polls, solved,
          image, detection, contact, chan, sendLog, sendResult, cur, other,
          ocr, instances, response, nreq, services, unique>>

runVars == <<actions, i, browser, closeCount, captcha, results, logs,
             screenshots, reports, cancelled, trace, argv, printed, escaped,
             extracted_data, last>>

solverVars == <<keys, ai_model, captcha_type, calls, netCalls, polls, solved>>

toolVars == <<image, detection, contact, chan, sendLog, sendResult, cur, other>>

appVars == <<ocr, instances, response, nreq, services, unique>>

-----------------------------------------------------------------------------
(* Bounds *)

MaxActions == 2

\* The number of requests the hub handles.
MaxRequests == 3

\* The number of services the discovery collects.
MaxServices == 3

-----------------------------------------------------------------------------
(* Constants of the program *)

\* 'for _ in range(30)': the status polls of a service adapter.
MaxPolls == 30

\* 'self.retry_count = 3' of NotificationSystem.
RetryCount == 3

-----------------------------------------------------------------------------
(* Inputs *)

\* The 'type' of an action of config['actions']: five types both scripts
\* have a branch for, "evaluate" that only AdvancedPlaywrightAutomation has
\* one for, "bogus" for a type no script knows, "notype" for a dict without
\* a 'type' key.
ActionTypes ==
    { "goto", "fill", "click", "extract", "screenshot", "evaluate", "bogus", "notype" }

RECURSIVE SeqsUpTo(_, _)
SeqsUpTo(S, n) ==
    IF n = 0 THEN { <<>> }
    ELSE LET shorter == SeqsUpTo(S, n - 1)
         IN  shorter \cup { Append(s, x) : s \in { t \in shorter : Len(t) = n - 1 }, x \in S }

ActionSeqs == SeqsUpTo(ActionTypes, MaxActions)

RunProgs == { "advanced", "backup" }

\* sys.argv as main sees it: no argument, an argument that is not JSON, a
\* configuration.
Argvs == { "none", "badjson", "ok" }

Event(ev, at, res) == [ev |-> ev, at |-> at, res |-> res]

Entry(type, action) == [type |-> type, action |-> action]

Report(success, rs, lg, sh) ==
    [success |-> success, results |-> rs, logs |-> lg, screenshots |-> sh]

\* What the latest execute_action did: the browser operations it called, in
\* order, and the content of the field a fill targets before and after.
Last(ops, before, after) == [ops |-> ops, before |-> before, after |-> after]

NoLast == Last(<<>>, <<>>, <<>>)

\* The content a target field can hold before a fill, and the value filled.
FieldContents == { <<>>, << "old" >> }

FillValue == << "new" >>

-----------------------------------------------------------------------------
(* main *)

Printed(success, fields) == [success |-> success, fields |-> fields]

\* ReportFields whose success dict leaves out the page identity.
ReportFieldsNoIdentity(p, success) ==
    IF p = "advanced"
    THEN IF success
         THEN { "success", "duration", "screenshots", "logs", "extracted_data" }
         ELSE { "success", "error", "duration", "screenshots", "logs", "traceback" }
    ELSE IF success
         THEN { "success", "results" }
         ELSE { "success", "error", "results" }

\* The keys of the dict run_automation / run returns.
ReportFields(p, success) ==
    IF p = "advanced"
    THEN IF success
         THEN { "success", "duration", "screenshots", "logs", "extracted_data",
                "final_url", "page_title" }
         ELSE { "success", "error", "duration", "screenshots", "logs", "traceback" }
    ELSE IF success
         THEN { "success", "results", "url", "title" }
         ELSE { "success", "error", "results" }

\* MainHandles without the 'except Exception' clause.
MainHandlesJsonOnly(p, exc) == exc = "JSONDecodeError"

\* The exceptions the except clauses of main catch: JSONDecodeError and
\* Exception (CancelledError is a BaseException and passes).
MainHandles(p, exc) == exc \in { "JSONDecodeError", "Exception" }

\* The keys of the dict an except clause of main prints.
MainExceptFields(p, exc) ==
    IF p = "advanced" /\ exc = "Exception"
    THEN { "success", "error", "traceback" }
    ELSE { "success", "error" }

\* An exception reaches the try of main: a clause that catches it prints
\* the failure dict, otherwise the exception leaves main.
MainExcept(exc) ==
    IF MainHandles(prog, exc)
    THEN /\ printed' = Append(printed, Printed(FALSE, MainExceptFields(prog, exc)))
         /\ UNCHANGED escaped
    ELSE /\ UNCHANGED printed
         /\ escaped' = exc

\* The dict the run returned reaches main, which prints it.
MainPrint(rep) ==
    /\ printed' = Append(printed, Printed(rep.success, ReportFields(prog, rep.success)))
    /\ UNCHANGED escaped

-----------------------------------------------------------------------------
(* Leaving the try block of run_automation / run *)

\* Finally that closes the browser but lets the run go on where it was.
FinallyResume(b) ==
    /\ closeCount' = IF b THEN closeCount + 1 ELSE closeCount
    /\ pc' = pc

\* finally: close the browser if self.browser is set (b), and the run is over.
Finally(b) ==
    /\ closeCount' = IF b THEN closeCount + 1 ELSE closeCount
    /\ pc' = "done"

\* The run's coroutine ends with the report rep on its way out: if close()
\* raises in the finally clause, that exception replaces the return value;
\* main prints what it gets (no suspension point lies in between).
Leave(rep, b) ==
    \E close_ok \in BOOLEAN :
        /\ b \/ close_ok
        /\ IF close_ok
           THEN /\ reports' = Append(reports, rep)
                /\ MainPrint(rep)
           ELSE /\ UNCHANGED reports
                /\ MainExcept("Exception")

\* return inside the try: the report is returned, then the finally clause runs.
ReturnPath(rep, b) ==
    /\ Leave(rep, b)
    /\ Finally(b)

\* ExceptPath without a finally clause: the browser is closed on return only.
ExceptPathNoFinally(rep, b) ==
    /\ Leave(rep, FALSE)
    /\ closeCount' = closeCount
    /\ pc' = "done"

\* except Exception: the failure report is returned, then the finally clause
\* runs. The except block has no suspension point of its own.
ExceptPath(rep, b) ==
    /\ Leave(rep, b)
    /\ Finally(b)

\* Cancellation of the run's task at a suspension point: CancelledError is no
\* Exception, so the except clause is skipped and only the finally clause
\* runs; nothing is returned. An exception of close() replaces it.
Cancel ==
    /\ prog \in RunProgs
    /\ pc \notin { "main", "done", "exit" }
    /\ cancelled' = TRUE
    /\ \E close_ok \in BOOLEAN :
          /\ browser \/ close_ok
          /\ MainExcept(IF close_ok THEN "CancelledError" ELSE "Exception")
    /\ Finally(browser)
    /\ UNCHANGED <<prog, actions, i, browser, captcha, results, logs,
                   screenshots, reports, trace, argv, extracted_data, last>>
    /\ UNCHANGED solverVars
    /\ UNCHANGED toolVars
    /\ UNCHANGED appVars

\* main up to the call of the run: without an argument, or with one that
\* json.loads rejects, it prints a failure dict and the run never starts.
Main ==
    /\ prog \in RunProgs /\ pc = "main"
    /\ IF argv = "none"
       THEN /\ printed' = Append(printed, Printed(FALSE, { "success", "error" }))
            /\ UNCHANGED escaped
            /\ pc' = "exit"
       ELSE IF argv = "badjson"
       THEN /\ MainExcept("JSONDecodeError")
            /\ pc' = "exit"
       ELSE /\ UNCHANGED <<printed, escaped>>
            /\ pc' = IF prog = "advanced" THEN "initialize_browser" ELSE "setup_browser"
    /\ UNCHANGED <<prog, actions, i, browser, closeCount, captcha, results, logs,
                   screenshots, reports, cancelled, trace, argv, extracted_data, last>>
    /\ UNCHANGED solverVars
    /\ UNCHANGED toolVars
    /\ UNCHANGED appVars

-----------------------------------------------------------------------------
(* Page operations *)

\* What a browser operation that completed does to the content of the field
\* a fill targets: clear() and fill(sel, '') empty it, fill(value) replaces
\* it, type(value) appends to it.
OpEffect(op, field) ==
    CASE op = "clear"      -> <<>>
      [] op = "fill_empty" -> <<>>
      [] op = "fill"       -> FillValue
      [] op = "type"       -> field \o FillValue
      [] OTHER             -> field

RECURSIVE FieldAfter(_, _)
FieldAfter(ops, field) ==
    IF ops = <<>> THEN field
    ELSE FieldAfter(Tail(ops), OpEffect(Head(ops), field))

\* The operations of ops that completed: all of them, or all but the last
\* one if that one raised.
Done(ops, raised) == IF raised THEN SubSeq(ops, 1, Len(ops) - 1) ELSE ops

\* The answers of the browser with which an operation of the action raises.
Raises(out) ==
    out \in { "throw", "wait_throws", "click_throws", "both_throw", "clear_throws",
              "fill_throws", "type_throws" }

\* NextAction that does not advance.
NextActionStay(k) == k

\* The step of the for loop over config['actions']: the action after the
\* k-th one.
NextAction(k) == k + 1

\* The run goes on: nothing is returned, closed or printed.
GoOn == UNCHANGED <<reports, closeCount, printed, escaped>>

-----------------------------------------------------------------------------
(* AdvancedPlaywrightAutomation *)

\* The action types execute_action has a branch for (those the model draws).
AdvSupported == { "goto", "fill", "click", "extract", "screenshot", "evaluate" }

\* How the browser answers the operations of an action: "ok", or the
\* operation that raises. "wait_throws" stands for wait_for_selector (a
\* missing or absent selector) or the scroll after it; "both_throw" for
\* element.click and the JavaScript click after it; an extract finds
\* elements ("ok") or none ("empty"); the script of an evaluate gives a value
\* ("ok"), throws, or returns a promise that is never settled ("never"):
\* page.evaluate takes no timeout.
AdvOutcomes(type) ==
    CASE type = "goto"    -> { "ok", "throw" }
      [] type = "click"   -> { "ok", "wait_throws", "click_throws", "both_throw" }
      [] type = "fill"    -> { "ok", "wait_throws", "clear_throws", "fill_throws" }
      [] type = "extract" -> { "ok", "empty", "throw" }
      [] type = "screenshot" -> { "ok", "throw" }
      [] type = "evaluate" -> { "ok", "throw", "never" }
      [] OTHER            -> { "ok" }

\* The call of execute_action comes back: each of its operations answered or
\* ran into its timeout.
Returns(out) == out # "never"

\* The click branch: wait for the element, scroll, element.click, and in
\* the except of the inner try the JavaScript click.
AdvClickOps(out) ==
    CASE out = "wait_throws" -> << "wait_for_selector" >>
      [] out = "ok"          -> << "wait_for_selector", "scroll_into_view_if_needed", "click" >>
      [] OTHER               -> << "wait_for_selector", "scroll_into_view_if_needed", "click",
                                   "evaluate_click" >>

\* The fill branch: wait for the element, scroll, element.clear, element.fill.
AdvFillOps(out) ==
    CASE out = "wait_throws"  -> << "wait_for_selector" >>
      [] out = "clear_throws" -> << "wait_for_selector", "scroll_into_view_if_needed", "clear" >>
      [] OTHER                -> << "wait_for_selector", "scroll_into_view_if_needed", "clear",
                                    "fill" >>

\* The browser operations execute_action calls, in order, the one that
\* raises included.
AdvOps(type, out) ==
    CASE type = "goto"    -> << "goto" >>
      [] type = "click"   -> AdvClickOps(out)
      [] type = "fill"    -> AdvFillOps(out)
      [] type = "extract" -> << "query_selector_all" >>
      [] type = "screenshot" -> << "screenshot" >>
      [] type = "evaluate" -> << "evaluate" >>
      [] OTHER            -> <<>>

\* What execute_action returns: everything after line 104 is inside the try,
\* so an unknown or missing type (ValueError) and a browser operation that
\* throws all end in the except branch, which returns a failed result. A
\* click whose element.click raises succeeds if the JavaScript click does;
\* an extract returns its data and an evaluate its result without a
\* 'success' key.
AdvExecuteAction(type, out) ==
    IF type \notin AdvSupported THEN "failed"
    ELSE IF Raises(out) /\ out # "click_throws" THEN "failed"
    ELSE IF type = "extract" THEN (IF out = "ok" THEN "data" ELSE "empty")
    ELSE IF type = "evaluate" THEN "result"
    ELSE "success"

AdvInitializeBrowser ==
    /\ prog = "advanced" /\ pc = "initialize_browser"
    /\ \E out \in { "ok", "launch_raises", "context_raises" } :
          /\ browser' = (out # "launch_raises")
          /\ IF out = "ok"
             THEN /\ pc' = "initial_goto"
                  /\ GoOn
             ELSE ExceptPath(Report(FALSE, <<>>, logs, screenshots), browser')
    /\ UNCHANGED <<prog, actions, i, captcha, results, logs, screenshots,
                   cancelled, trace, argv, extracted_data, last>>
    /\ UNCHANGED solverVars
    /\ UNCHANGED toolVars
    /\ UNCHANGED appVars

AdvInitialGoto ==
    /\ prog = "advanced" /\ pc = "initial_goto"
    /\ \E ok \in BOOLEAN, page \in BOOLEAN :
          IF ok
          THEN /\ captcha' = page
               /\ pc' = IF Len(actions) = 0 THEN "final" ELSE "handle_captcha"
               /\ GoOn
          ELSE /\ UNCHANGED captcha
               /\ ExceptPath(Report(FALSE, <<>>, logs, screenshots), browser)
    /\ UNCHANGED <<prog, actions, i, browser, results, logs, screenshots,
                   cancelled, trace, argv, extracted_data, last>>
    /\ UNCHANGED solverVars
    /\ UNCHANGED toolVars
    /\ UNCHANGED appVars

\* handle_captcha: detect_captcha, and if it found one a screenshot and a
\* 10 s wait (no solver is called); the caller ignores what it returns.
AdvHandleCaptcha ==
    /\ prog = "advanced" /\ pc = "handle_captcha"
    /\ \E out \in { "ok", "raises" } :
          IF out = "raises"
          THEN /\ UNCHANGED trace
               /\ ExceptPath(Report(FALSE, <<>>, logs, screenshots), browser)
          ELSE /\ trace' = IF captcha
                           THEN trace \o << Event("check", i, "captcha"),
                                            Event("handle", i, "waited") >>
                           ELSE Append(trace, Event("check", i, "none"))
               /\ pc' = "execute_action"
               /\ GoOn
    /\ UNCHANGED <<prog, actions, i, browser, captcha, results, logs,
                   screenshots, cancelled, argv, extracted_data, last>>
    /\ UNCHANGED solverVars
    /\ UNCHANGED toolVars
    /\ UNCHANGED appVars

\* AdvAfterAction with the check before the next action left out.
AdvAfterActionNoCheck(k) ==
    IF k + 1 > Len(actions) THEN "final" ELSE "execute_action"

\* Where the loop goes after action k: to the check before action k + 1, or
\* past the loop to the final screenshot.
AdvAfterAction(k) ==
    IF k + 1 > Len(actions) THEN "final" ELSE "handle_captcha"

\* execute_action awaits an operation that never answers: the coroutine
\* stays suspended in the await, with everything as it was.
AdvAwaitForever ==
    /\ prog = "advanced" /\ pc = "execute_action"
    /\ \E out \in AdvOutcomes(actions[i]) : ~Returns(out)
    /\ pc' = "awaiting"
    /\ GoOn
    /\ UNCHANGED <<prog, actions, i, browser, captcha, results, logs, screenshots,
                   cancelled, trace, argv, extracted_data, last>>
    /\ UNCHANGED solverVars
    /\ UNCHANGED toolVars
    /\ UNCHANGED appVars

\* One pass of the loop body after the check: execute_action, whose result
\* the loop only reads for 'data', then the delay between actions.
AdvLoopBody ==
    /\ prog = "advanced" /\ pc = "execute_action"
    /\ \E out \in { o \in AdvOutcomes(actions[i]) : Returns(o) },
          before \in FieldContents, page \in BOOLEAN, delay_ok \in BOOLEAN :
          LET type == actions[i]
              res  == AdvExecuteAction(type, out)
              ops  == AdvOps(type, out)
          IN  /\ type # "fill" => before = <<>>
              /\ trace' = Append(trace, Event("exec", i, res))
              /\ last' = Last(ops, before, FieldAfter(Done(ops, Raises(out) /\ type = "fill"), before))
              /\ logs' = IF res = "failed"
                         THEN Append(logs, Entry("failed", type))
                         ELSE logs
              /\ extracted_data' = IF res = "data"
                                   THEN Append(extracted_data, Entry("data", i))
                                   ELSE extracted_data
              /\ screenshots' = IF type = "screenshot" /\ res = "success"
                                THEN Append(screenshots, "Screenshot")
                                ELSE screenshots
              /\ captcha' = page
              /\ IF delay_ok
                 THEN /\ i' = NextAction(i)
                      /\ pc' = AdvAfterAction(i)
                      /\ GoOn
                 ELSE /\ i' = i
                      /\ ExceptPath(Report(FALSE, <<>>, logs', screenshots'), browser)
    /\ UNCHANGED <<prog, actions, browser, results, cancelled, argv>>
    /\ UNCHANGED solverVars
    /\ UNCHANGED toolVars
    /\ UNCHANGED appVars

\* After the loop: final screenshot, page title, the success report, which
\* alone carries extracted_data.
AdvFinal ==
    /\ prog = "advanced" /\ pc = "final"
    /\ \E out \in { "ok", "screenshot_raises", "title_raises" } :
          /\ screenshots' = IF out = "screenshot_raises" THEN screenshots
                            ELSE Append(screenshots, "Final screenshot")
          /\ IF out = "ok"
             THEN ReturnPath(Report(TRUE, extracted_data, logs, screenshots'), browser)
             ELSE ExceptPath(Report(FALSE, <<>>, logs, screenshots'), browser)
    /\ UNCHANGED <<prog, actions, i, browser, captcha, results, logs,
                   cancelled, trace, argv, extracted_data, last>>
    /\ UNCHANGED solverVars
    /\ UNCHANGED toolVars
    /\ UNCHANGED appVars

-----------------------------------------------------------------------------
(* PlaywrightAutomator (backup) *)

\* The action types execute_action has a branch for (those the model draws).
BkSupported == { "goto", "fill", "click", "extract", "screenshot" }

\* How the browser answers the operations of an action: "ok", or the
\* operation that raises.
BkOutcomes(type) ==
    CASE type = "goto"    -> { "ok", "throw" }
      [] type = "click"   -> { "ok", "wait_throws", "click_throws" }
      [] type = "fill"    -> { "ok", "wait_throws", "clear_throws", "type_throws" }
      [] type = "extract" -> { "ok", "throw" }
      [] type = "screenshot" -> { "ok", "throw" }
      [] OTHER            -> { "ok" }

\* The click branch: wait for the selector, page.click.
BkClickOps(out) ==
    IF out = "wait_throws" THEN << "wait_for_selector" >>
    ELSE << "wait_for_selector", "click" >>

\* BkFillOps without the fill(selector, '') that clears the field.
BkFillOpsNoClear(out) ==
    IF out = "wait_throws" THEN << "wait_for_selector" >>
    ELSE << "wait_for_selector", "type" >>

\* The fill branch: wait for the selector, page.fill(selector, '') to clear
\* the field, page.type(selector, value).
BkFillOps(out) ==
    CASE out = "wait_throws"  -> << "wait_for_selector" >>
      [] out = "clear_throws" -> << "wait_for_selector", "fill_empty" >>
      [] OTHER                -> << "wait_for_selector", "fill_empty", "type" >>

\* The browser operations execute_action calls, in order, the one that
\* raises included.
BkOps(type, out) ==
    CASE type = "goto"    -> << "goto" >>
      [] type = "click"   -> BkClickOps(out)
      [] type = "fill"    -> BkFillOps(out)
      [] type = "extract" -> << "query_selector_all" >>
      [] type = "screenshot" -> << "screenshot" >>
      [] OTHER            -> <<>>

\* What execute_action does with an action: action['type'] is read before
\* the try, so a dict without 'type' raises KeyError to the caller; a type
\* without a branch falls through the elif chain to the 'action_completed'
\* record; an exception inside the try gives an 'action_error' record.
BkExecuteAction(type, out) ==
    IF type = "notype" THEN "raised"
    ELSE IF type \notin BkSupported THEN "action_completed"
    ELSE IF Raises(out) THEN "action_error"
    ELSE "action_completed"

BkSetupBrowser ==
    /\ prog = "backup" /\ pc = "setup_browser"
    /\ \E out \in { "ok", "launch_raises", "context_raises" } :
          /\ browser' = (out # "launch_raises")
          /\ IF out = "ok"
             THEN /\ pc' = "bk_initial_goto"
                  /\ GoOn
             ELSE ExceptPath(Report(FALSE, results, logs, screenshots), browser')
    /\ UNCHANGED <<prog, actions, i, captcha, results, logs, screenshots,
                   cancelled, trace, argv, extracted_data, last>>
    /\ UNCHANGED solverVars
    /\ UNCHANGED toolVars
    /\ UNCHANGED appVars

\* execute_actions up to the loop: an exception of the first navigation is
\* caught by execute_actions itself, recorded, and ends execute_actions.
BkInitialGoto ==
    /\ prog = "backup" /\ pc = "bk_initial_goto"
    /\ \E ok \in BOOLEAN, page \in BOOLEAN :
          IF ok
          THEN /\ captcha' = page
               /\ pc' = IF Len(actions) = 0 THEN "detect_captcha" ELSE "bk_execute_action"
               /\ UNCHANGED results
          ELSE /\ UNCHANGED captcha
               /\ results' = Append(results, Entry("error", "initial_goto"))
               /\ pc' = "detect_captcha"
    /\ UNCHANGED <<prog, actions, i, browser, closeCount, logs, screenshots,
                   reports, cancelled, trace, argv, printed, escaped,
                   extracted_data, last>>
    /\ UNCHANGED solverVars
    /\ UNCHANGED toolVars
    /\ UNCHANGED appVars

\* One pass of the loop of execute_actions: execute_action and the delay. An
\* exception out of execute_action is caught by execute_actions, recorded,
\* and ends the loop. An extract that completes records its data, then the
\* 'action_completed' record follows as for every action.
BkLoopBody ==
    /\ prog = "backup" /\ pc = "bk_execute_action"
    /\ \E out \in BkOutcomes(actions[i]), before \in FieldContents, page \in BOOLEAN :
          LET type == actions[i]
              res  == BkExecuteAction(type, out)
              ops  == BkOps(type, out)
              data == IF type = "extract" /\ res = "action_completed"
                      THEN << Entry("extracted_data", type) >>
                      ELSE IF type = "screenshot" /\ res = "action_completed"
                      THEN << Entry("screenshot", type) >>
                      ELSE <<>>
          IN  /\ type # "fill" => before = <<>>
              /\ trace' = Append(trace, Event("exec", i, res))
              /\ last' = Last(ops, before, FieldAfter(Done(ops, Raises(out)), before))
              /\ IF res = "raised"
                 THEN /\ results' = Append(results, Entry("error", type))
                      /\ UNCHANGED <<captcha, i>>
                      /\ pc' = "detect_captcha"
                 ELSE /\ results' = (results \o data) \o << Entry(res, type) >>
                      /\ captcha' = page
                      /\ i' = NextAction(i)
                      /\ pc' = IF i + 1 > Len(actions) THEN "detect_captcha"
                               ELSE "bk_execute_action"
    /\ UNCHANGED <<prog, actions, browser, closeCount, logs, screenshots,
                   reports, cancelled, argv, printed, escaped, extracted_data>>
    /\ UNCHANGED solverVars
    /\ UNCHANGED toolVars
    /\ UNCHANGED appVars

\* BkDetectRecord that records a detection whatever the queries found.
BkDetectRecordAlways(found) == << Entry("captcha_detected", "-") >>

\* What detect_captcha appends to results: a 'captcha_detected' record at
\* the first selector with an element, nothing if no selector has one.
BkDetectRecord(found) ==
    IF found THEN << Entry("captcha_detected", "-") >> ELSE <<>>

\* What detect_captcha returns: True at the first selector with an element;
\* a query that raises is skipped ('except: continue'), so with every query
\* raising the loop ends and False is returned.
BkDetectReturns(found, query) == found /\ query = "ok"

\* detect_captcha after execute_actions: every query is in a try of its own,
\* a hit is recorded in results; run ignores what it returns.
BkDetectCaptcha ==
    /\ prog = "backup" /\ pc = "detect_captcha"
    /\ \E query \in { "ok", "raises" } :
          /\ trace' = (trace \o (IF query = "raises"
                                 THEN << Event("query", i, "raised") >> ELSE << >>))
                         \o << Event("check", i, IF BkDetectReturns(captcha, query)
                                                 THEN "captcha" ELSE "none") >>
          /\ results' = results \o BkDetectRecord(BkDetectReturns(captcha, query))
    /\ pc' = "email_verification"
    /\ UNCHANGED <<prog, actions, i, browser, closeCount, captcha, logs,
                   screenshots, reports, cancelled, argv, printed, escaped,
                   extracted_data, last>>
    /\ UNCHANGED solverVars
    /\ UNCHANGED toolVars
    /\ UNCHANGED appVars

\* handle_email_verification: reads the page content and text; a hit is
\* recorded in results; run ignores what it returns.
BkEmailVerification ==
    /\ prog = "backup" /\ pc = "email_verification"
    /\ \E email \in { "none", "required", "raises" } :
          IF email = "raises"
          THEN /\ UNCHANGED results
               /\ ExceptPath(Report(FALSE, results, logs, screenshots), browser)
          ELSE /\ results' = IF email = "required"
                             THEN Append(results, Entry("email_verification_required", "-"))
                             ELSE results
               /\ pc' = "final_screenshot"
               /\ GoOn
    /\ UNCHANGED <<prog, actions, i, browser, captcha, logs, screenshots,
                   cancelled, trace, argv, extracted_data, last>>
    /\ UNCHANGED solverVars
    /\ UNCHANGED toolVars
    /\ UNCHANGED appVars

\* The final screenshot, the page title and the success report.
BkFinal ==
    /\ prog = "backup" /\ pc = "final_screenshot"
    /\ \E out \in { "ok", "screenshot_raises", "title_raises" } :
          LET withShot == Append(results, Entry("final_screenshot", "-"))
          IN  IF out = "screenshot_raises"
              THEN /\ UNCHANGED results
                   /\ ExceptPath(Report(FALSE, results, logs, screenshots), browser)
              ELSE /\ results' = withShot
                   /\ IF out = "ok"
                      THEN ReturnPath(Report(TRUE, withShot, logs, screenshots), browser)
                      ELSE ExceptPath(Report(FALSE, withShot, logs, screenshots), browser)
    /\ UNCHANGED <<prog, actions, i, browser, captcha, logs, screenshots,
                   cancelled, trace, argv, extracted_data, last>>
    /\ UNCHANGED solverVars
    /\ UNCHANGED toolVars
    /\ UNCHANGED appVars

-----------------------------------------------------------------------------
(* Solver results *)

Adapters == { "openai", "anthropic", "2captcha", "anticaptcha" }

\* A dict returned by a solver method: confidence is in tenths.
Solved(method, confidence) ==
    [success |-> TRUE, method |-> method, confidence |-> confidence, error |-> "none"]

Failed(method, error) ==
    [success |-> FALSE, method |-> method, confidence |-> 0, error |-> error]

Call(candidate, res) ==
    [candidate |-> candidate, success |-> res.success, error |-> res.error,
     method |-> res.method, confidence |-> res.confidence]

\* The answers a remote service can give to a request that was sent.
RemoteOutcomes == { "solved", "error", "timeout", "exception" }

\* The answer of a service to the submission of a job.
SubmitAnswers == { "ok", "error", "exception" }

\* The answer of a service to a status poll; "not_ready" is
\* 'CAPCHA_NOT_READY' / 'processing'.
PollAnswers == { "ready", "not_ready", "error", "exception" }

\* How many polls a job stays not ready before its final answer.
PollWaits == { 0, 1, MaxPolls - 1, MaxPolls }

\* What a service does with one job: its answer to the submission, and to
\* the polls: not ready for the first 'wait' polls, then 'final'.
ServiceAnswers ==
    [submit : SubmitAnswers, wait : PollWaits, final : PollAnswers \ { "not_ready" }]

AnswerAt(ans, k) == IF k <= ans.wait THEN "not_ready" ELSE ans.final

\* The polls of the latest service adapter: how many it made and the last
\* answer it got.
Polls(service, count, answer) == [service |-> service, count |-> count, answer |-> answer]

NoPolls == Polls("none", 0, "none")

\* Configured with the test of the key left out.
ConfiguredAlways(k, adapter) == TRUE

\* The truth test of a key read from the environment ('and self.x_api_key',
\* 'if not self.x_api_key', 'if self.twocaptcha_key').
Configured(k, adapter) == k[adapter]

\* CascadeStep that does not return at a success before the last candidate.
CascadeStepNoStop(res, next, terminal) ==
    IF next = "done"
    THEN /\ solved' = Append(solved, IF res.success THEN res ELSE terminal)
         /\ pc' = "done"
    ELSE /\ UNCHANGED solved
         /\ pc' = next

\* CascadeStep that gives up at the first failure.
CascadeStepGiveUp(res, next, terminal) ==
    IF res.success
    THEN /\ solved' = Append(solved, res)
         /\ pc' = "done"
    ELSE /\ solved' = Append(solved, terminal)
         /\ pc' = "done"

\* What a stage of a cascade does with its candidate's result: a successful
\* result is returned at once; a failure goes on to the next candidate, and
\* after the last candidate the terminal failure is returned.
CascadeStep(res, next, terminal) ==
    IF res.success
    THEN /\ solved' = Append(solved, res)
         /\ pc' = "done"
    ELSE IF next = "done"
    THEN /\ solved' = Append(solved, terminal)
         /\ pc' = "done"
    ELSE /\ UNCHANGED solved
         /\ pc' = next

-----------------------------------------------------------------------------
(* IntelligentCaptchaSolver *)

AiModels == { "gpt-4-vision", "claude-3-opus", "llava" }

\* solve_with_ai_vision: the adapter it hands the image to, by the prefix of
\* ai_model and the key that is set; "none" is the else branch
\* ('No suitable AI model available').
IcsVisionAdapter(model, k) ==
    IF model = "gpt-4-vision" /\ Configured(k, "openai") THEN "openai"
    ELSE IF model = "claude-3-opus" /\ Configured(k, "anthropic") THEN "anthropic"
    ELSE "none"

\* solve_with_service: the adapter it hands the image to; "none" is the
\* else branch ('Service ... not available').
IcsServiceAdapter(service, k) ==
    IF service = "2captcha" /\ Configured(k, "2captcha") THEN "2captcha"
    ELSE IF service = "anticaptcha" /\ Configured(k, "anticaptcha") THEN "anticaptcha"
    ELSE "none"

\* The poll loop of _solve_with_2captcha / _solve_with_anticaptcha after k
\* polls: the solution at the first poll that reports it ready, the error
\* at an error answer, the timeout after MaxPolls polls; a request that
\* raises is caught by the adapter.
RECURSIVE IcsPollLoop(_, _, _)
IcsPollLoop(service, ans, k) ==
    IF k = MaxPolls
    THEN [polls |-> Polls(service, k, "not_ready"), res |-> Failed(service, "timeout")]
    ELSE LET answer == AnswerAt(ans, k + 1)
         IN  IF answer = "ready"
             THEN [polls |-> Polls(service, k + 1, answer), res |-> Solved(service, 9)]
             ELSE IF answer = "not_ready"
             THEN IcsPollLoop(service, ans, k + 1)
             ELSE [polls |-> Polls(service, k + 1, answer), res |-> Failed(service, answer)]

\* _solve_with_2captcha / _solve_with_anticaptcha after the test of the key.
IcsSolveWithService(service, ans) ==
    IF ans.submit = "ok" THEN IcsPollLoop(service, ans, 0)
    ELSE [polls |-> Polls(service, 0, "none"),
          res   |-> Failed(service, IF ans.submit = "error" THEN "submit_error" ELSE "exception")]

\* An adapter (_solve_with_openai, ..., _solve_with_anticaptcha): it checks
\* its key again before anything else and sends its request only if the key
\* is set; out is the answer to the request of a vision adapter, ans the
\* answers to the requests of a service adapter.
IcsAdapter(adapter, k, out, ans) ==
    IF ~Configured(k, adapter)
    THEN [sent |-> FALSE, polls |-> NoPolls, res |-> Failed(adapter, "not_available")]
    ELSE IF adapter \in { "openai", "anthropic" }
    THEN [sent |-> TRUE, polls |-> NoPolls,
          res  |-> IF out = "solved" THEN Solved(adapter, 8) ELSE Failed(adapter, out)]
    ELSE [sent |-> TRUE] @@ IcsSolveWithService(adapter, ans)

\* The dict solve_captcha returns after its three candidates failed: it
\* names the attempts.
IcsAllFailed ==
    [attempts |-> << "ai_vision", "2captcha", "anticaptcha" >>]
        @@ Failed("cascade", "all_failed")

\* One candidate of solve_captcha: the wrapper is called, picks its adapter
\* and calls it, or fails at once if it picked none.
IcsCandidate(here, candidate, adapter, next) ==
    /\ prog = "intelligent" /\ pc = here
    /\ \E out \in RemoteOutcomes, ans \in ServiceAnswers :
          LET got == IF adapter = "none"
                     THEN [sent |-> FALSE, polls |-> NoPolls,
                           res |-> Failed(candidate, "not_available")]
                     ELSE IcsAdapter(adapter, keys, out, ans)
          IN  /\ calls' = Append(calls, Call(candidate, got.res))
              /\ netCalls' = IF got.sent THEN Append(netCalls, adapter) ELSE netCalls
              /\ polls' = got.polls
              /\ CascadeStep(got.res, next, IcsAllFailed)
    /\ UNCHANGED <<prog, keys, ai_model, captcha_type>>
    /\ UNCHANGED runVars
    /\ UNCHANGED toolVars
    /\ UNCHANGED appVars

IcsAiVision ==
    IcsCandidate("ai_vision", "ai_vision", IcsVisionAdapter(ai_model, keys), "2captcha")

IcsTwoCaptcha ==
    IcsCandidate("2captcha", "2captcha", IcsServiceAdapter("2captcha", keys), "anticaptcha")

IcsAntiCaptcha ==
    IcsCandidate("anticaptcha", "anticaptcha", IcsServiceAdapter("anticaptcha", keys), "done")

-----------------------------------------------------------------------------
(* AICaptchaSolver *)

Min(a, b) == IF a <= b THEN a ELSE b

\* The characters of the decimal digits.
DigitChar == << "0", "1", "2", "3", "4", "5", "6", "7", "8", "9" >>

\* str(n) of an integer, as the sequence of its characters.
RECURSIVE Digits(_)
Digits(n) ==
    IF n < 10 THEN << DigitChar[n + 1] >>
    ELSE Digits(n \div 10) \o << DigitChar[(n % 10) + 1] >>

Str(n) == IF n < 0 THEN << "-" >> \o Digits(0 - n) ELSE Digits(n)

\* ','.join(parts), as a sequence of characters.
RECURSIVE Join(_)
Join(parts) ==
    IF parts = << >> THEN << >>
    ELSE IF Len(parts) = 1 THEN parts[1]
    ELSE parts[1] \o << "," >> \o Join(Tail(parts))

\* A non-empty text recognised by an OCR back end, and the answer of a
\* solving service.
OcrText == << "A", "B" >>

ServiceText == << "t", "o", "k" >>

\* The dicts AICaptchaSolver returns: a failure has 'solution': '' and
\* 'confidence': 0.0 in every return statement.
AcsSolved(method, confidence, solution) ==
    [solution |-> solution] @@ Solved(method, confidence)

\* AcsFailed that keeps a guess in the failure dict.
AcsFailedWithGuess(method, error) ==
    [solution |-> OcrText] @@ Failed(method, error)

AcsFailed(method, error) ==
    [solution |-> << >>] @@ Failed(method, error)

CaptchaTypes ==
    { "text_captcha", "math_captcha", "image_selection", "recaptcha_v2",
      "hcaptcha", "simple_text", "unknown" }

\* The types solve_captcha hands to a cascade (solve_recaptcha_v2,
\* solve_hcaptcha, solve_generic); the others go to one local solver.
CascadeTypes == { "recaptcha_v2", "hcaptcha", "unknown" }

\* The confidences easyocr can give a reading, in tenths.
EasyConfs == { 3, 5, 6, 10 }

\* The test of an easyocr reading with every reading kept.
EasyKeepsAll(conf) == TRUE

\* 'if conf > 0.5': the easyocr readings that become solutions.
EasyKeeps(conf) == conf > 5

\* max(solutions, key=confidence): the first solution of the greatest
\* confidence (the tesseract solution is appended first).
Best(solutions) ==
    LET top == CHOOSE p \in DOMAIN solutions :
                   /\ \A q \in DOMAIN solutions :
                         solutions[q].confidence <= solutions[p].confidence
                   /\ \A q \in 1 .. (p - 1) :
                         solutions[q].confidence < solutions[p].confidence
    IN  solutions[top]

\* solve_text_captcha: tess says whether tesseract gave a non-empty text,
\* easy is the confidences of the easyocr readings in their order, raises
\* says whether the preprocessing raised; solve_with_cnn always fails.
SolveTextCaptcha(tess, easy, raises) ==
    IF raises THEN AcsFailed("error", "exception")
    ELSE LET kept == SelectSeq(easy, EasyKeeps)
             solutions ==
                 (IF tess THEN << [confidence |-> 7, method |-> "tesseract"] >> ELSE << >>)
                 \o [p \in DOMAIN kept |-> [confidence |-> kept[p], method |-> "easyocr"]]
         IN  IF solutions # << >>
             THEN AcsSolved(Best(solutions).method, Best(solutions).confidence, OcrText)
             ELSE AcsFailed("ocr_failed", "failed")

\* The easyocr readings of one image.
EasyReadings == { << >> } \cup { << c >> : c \in EasyConfs } \cup { << 6, 10 >>, << 3, 6 >> }

\* The grids detect_image_grid can report: none, an exception of the
\* detection inside solve_image_selection, or the number of cells of the
\* grid it found.
GridCells == { 0, 1, 3 }

Grid(state, cells) == [state |-> state, cells |-> cells]

Grids ==
    { Grid("not_detected", 0), Grid("raises", 0) }
        \cup { Grid("detected", n) : n \in GridCells }

\* random.sample(range(total), n): the n cells drawn, in the order drawn.
Samples(total, n) ==
    { c \in [1 .. n -> 0 .. (total - 1)] : \A p, q \in 1 .. n : p # q => c[p] # c[q] }

\* simulate_object_detection: 2 to min(4, total) cells drawn at random and
\* joined with commas; random.randint(2, min(4, total)) raises on a grid of
\* fewer than 2 cells (the set is empty then).
SimulateObjectDetection(total) ==
    { Join([p \in DOMAIN c |-> Str(c[p])]) :
          c \in UNION { Samples(total, n) : n \in 2 .. Min(4, total) } }

\* solve_image_selection: the results it can return for a grid.
SolveImageSelection(grid) ==
    IF grid.state = "not_detected" THEN { AcsFailed("grid_not_detected", "failed") }
    ELSE IF grid.state = "raises" \/ SimulateObjectDetection(grid.cells) = {}
    THEN { AcsFailed("error", "exception") }
    ELSE { AcsSolved("object_detection_simulation", 6, cells) :
               cells \in SimulateObjectDetection(grid.cells) }

\* What pytesseract reads for solve_math_captcha: a text in which the
\* patterns find 'a op b', a text in which they find nothing, or an
\* exception of the OCR.
Ocr(kind, a, op, b) == [kind |-> kind, a |-> a, op |-> op, b |-> b]

NoOcr == Ocr("none", 0, "+", 0)

Operands == { 0, 2, 7, 12 }

Operators == { "+", "-", "*", "/" }

MathTexts == { Ocr("parsed", a, op, b) : a \in Operands, op \in Operators, b \in Operands }

\* The texts drawn for a captcha type: all of them for a math captcha, a few
\* for the math step of solve_generic.
OcrFor(type) ==
    IF type = "math_captcha"
    THEN MathTexts \cup { Ocr("unparsed", 0, "+", 0), Ocr("raises", 0, "+", 0) }
    ELSE IF type = "unknown"
    THEN { Ocr("unparsed", 0, "+", 0), Ocr("raises", 0, "+", 0),
           Ocr("parsed", 7, "/", 2), Ocr("parsed", 7, "/", 0) }
    ELSE { NoOcr }

\* MathValue with every operator read as '+'.
MathValueAdds(a, op, b) == << a + b >>

\* The if/elif chain over the operator found in the match: the value
\* assigned to 'result', none for a division by 0 (no branch assigns then).
MathValue(a, op, b) ==
    IF op = "+" THEN << a + b >>
    ELSE IF op = "-" THEN << a - b >>
    ELSE IF op = "*" THEN << a * b >>
    ELSE IF b # 0 THEN << a \div b >>
    ELSE << >>

\* solve_math_captcha: str(result) with confidence 0.9; with 'result' never
\* assigned, str(result) raises UnboundLocalError inside the try and the
\* except clause returns the 'error' dict.
SolveMathCaptcha(text) ==
    IF text.kind = "raises" THEN AcsFailed("error", "exception")
    ELSE IF text.kind # "parsed" THEN AcsFailed("math_parse_failed", "failed")
    ELSE IF MathValue(text.a, text.op, text.b) = << >> THEN AcsFailed("error", "exception")
    ELSE AcsSolved("math_parser", 9, Str(MathValue(text.a, text.op, text.b)[1]))

\* solve_simple_text: out is "ok", "failed" (empty text) or "raises".
SolveSimpleText(out) ==
    IF out = "ok" THEN AcsSolved("simple_ocr", 8, OcrText)
    ELSE IF out = "failed" THEN AcsFailed("simple_ocr_failed", "failed")
    ELSE AcsFailed("error", "exception")

LocalOutcomes == { "ok", "failed", "raises" }

\* solve_captcha up to the routing: an image that cannot be decoded raises
\* inside the try and gives the 'error' result.
AcsSolveCaptcha ==
    /\ prog = "aisolver" /\ pc = "solve_captcha"
    /\ \E decodable \in BOOLEAN :
          IF ~decodable
          THEN /\ solved' = Append(solved, AcsFailed("error", "exception"))
               /\ pc' = "done"
          ELSE /\ UNCHANGED solved
               /\ pc' = IF captcha_type \in { "recaptcha_v2", "hcaptcha" } THEN "external"
                        ELSE IF captcha_type = "unknown" THEN "generic_text"
                        ELSE "direct"
    /\ UNCHANGED <<prog, keys, ai_model, captcha_type, calls, netCalls, polls>>
    /\ UNCHANGED runVars
    /\ UNCHANGED toolVars
    /\ UNCHANGED appVars

\* solve_recaptcha_v2 / solve_hcaptcha, first statement: no key at all.
AcsExternal ==
    /\ prog = "aisolver" /\ pc = "external"
    /\ IF ~Configured(keys, "2captcha") /\ ~Configured(keys, "anticaptcha")
       THEN /\ solved' = Append(solved, AcsFailed("no_api_key", "not_available"))
            /\ pc' = "done"
       ELSE /\ UNCHANGED solved
            /\ pc' = "external_2captcha"
    /\ UNCHANGED <<prog, keys, ai_model, captcha_type, calls, netCalls, polls>>
    /\ UNCHANGED runVars
    /\ UNCHANGED toolVars
    /\ UNCHANGED appVars

\* The poll loop of solve_with_2captcha / solve_with_anticaptcha after k
\* polls: the solution at the first poll that reports it ready; an answer
\* that is neither ready nor not ready breaks out of the loop to the
\* statement after it, which returns the '<service>_timeout' result.
RECURSIVE AcsPollLoop(_, _, _)
AcsPollLoop(service, ans, k) ==
    IF k = MaxPolls
    THEN [polls |-> Polls(service, k, "not_ready"), res |-> AcsFailed(service, "timeout")]
    ELSE LET answer == AnswerAt(ans, k + 1)
         IN  IF answer = "ready"
             THEN [polls |-> Polls(service, k + 1, answer), res |-> AcsSolved(service, 9, ServiceText)]
             ELSE IF answer = "not_ready"
             THEN AcsPollLoop(service, ans, k + 1)
             ELSE IF answer = "error"
             THEN [polls |-> Polls(service, k + 1, answer), res |-> AcsFailed(service, "timeout")]
             ELSE [polls |-> Polls(service, k + 1, answer), res |-> AcsFailed(service, "exception")]

\* solve_with_2captcha / solve_with_anticaptcha.
AcsSolveWithService(service, ans) ==
    IF ans.submit = "ok" THEN AcsPollLoop(service, ans, 0)
    ELSE [polls |-> Polls(service, 0, "none"),
          res   |-> AcsFailed(service, IF ans.submit = "error" THEN "submit_error" ELSE "exception")]

\* One service of solve_recaptcha_v2 / solve_hcaptcha: solve_with_<service>
\* is called, and sends its request, only if the key of the service is set.
AcsService(here, service, next) ==
    /\ prog = "aisolver" /\ pc = here
    /\ \E ans \in ServiceAnswers :
          LET got == AcsSolveWithService(service, ans)
              terminal == AcsFailed("external_service_failed", "all_failed")
          IN  IF Configured(keys, service)
              THEN /\ calls' = Append(calls, Call(service, got.res))
                   /\ netCalls' = Append(netCalls, service)
                   /\ polls' = got.polls
                   /\ CascadeStep(got.res, next, terminal)
              ELSE /\ UNCHANGED <<calls, netCalls, polls>>
                   /\ CascadeStep(AcsFailed(service, "not_available"), next, terminal)
    /\ UNCHANGED <<prog, keys, ai_model, captcha_type>>
    /\ UNCHANGED runVars
    /\ UNCHANGED toolVars
    /\ UNCHANGED appVars

AcsTwoCaptcha ==
    AcsService("external_2captcha", "2captcha", "external_anticaptcha")

AcsAntiCaptcha ==
    AcsService("external_anticaptcha", "anticaptcha", "done")

\* The result of a local solver (no key, no request), which catches its own
\* exceptions, for each answer of the OCR back ends.
LocalResults(method) ==
    IF method = "text_captcha"
    THEN { SolveTextCaptcha(tess, easy, raises) :
               tess \in BOOLEAN, easy \in EasyReadings, raises \in BOOLEAN }
    ELSE IF method = "math_captcha"
    THEN { SolveMathCaptcha(ocr) }
    ELSE IF method = "simple_text"
    THEN { SolveSimpleText(out) : out \in LocalOutcomes }
    ELSE UNION { SolveImageSelection(grid) : grid \in Grids }

\* solve_captcha routing a type to its one local solver.
AcsDirect ==
    /\ prog = "aisolver" /\ pc = "direct"
    /\ \E res \in LocalResults(captcha_type) :
          /\ calls' = Append(calls, Call(captcha_type, res))
          /\ solved' = Append(solved, res)
          /\ pc' = "done"
    /\ UNCHANGED <<prog, keys, ai_model, captcha_type, netCalls, polls>>
    /\ UNCHANGED runVars
    /\ UNCHANGED toolVars
    /\ UNCHANGED appVars

\* One method of solve_generic.
AcsGeneric(here, method, next) ==
    /\ prog = "aisolver" /\ pc = here
    /\ \E res \in LocalResults(method) :
          /\ calls' = Append(calls, Call(method, res))
          /\ CascadeStep(res, next, AcsFailed("all_methods_failed", "all_failed"))
    /\ UNCHANGED <<prog, keys, ai_model, captcha_type, netCalls, polls>>
    /\ UNCHANGED runVars
    /\ UNCHANGED toolVars
    /\ UNCHANGED appVars

AcsGenericText ==
    AcsGeneric("generic_text", "text_captcha", "generic_math")

AcsGenericMath ==
    AcsGeneric("generic_math", "math_captcha", "generic_simple")

AcsGenericSimple ==
    AcsGeneric("generic_simple", "simple_text", "done")

-----------------------------------------------------------------------------
(* CaptchaDetector *)

\* The kinds of captcha_patterns, in the order of the dict.
TextKinds ==
    << "recaptcha", "hcaptcha", "cloudflare", "image_captcha", "math_captcha",
       "text_captcha" >>

\* The number of patterns captcha_patterns has for a kind.
PatternCount(kind) ==
    CASE kind = "recaptcha"     -> 4
      [] kind = "hcaptcha"      -> 3
      [] kind = "cloudflare"    -> 4
      [] kind = "image_captcha" -> 4
      [] kind = "math_captcha"  -> 3
      [] kind = "text_captcha"  -> 3

\* simulated_text, "I'm not a robot reCAPTCHA verification", as the patterns
\* (kind, number) that re.search finds in it under re.IGNORECASE:
\* 'recaptcha', "I'm not a robot" and 'reCAPTCHA' of recaptcha, 'captcha' of
\* image_captcha.
SimulatedText ==
    { << "recaptcha", 1 >>, << "recaptcha", 3 >>, << "recaptcha", 4 >>,
      << "image_captcha", 1 >> }

\* 'confidence += 0.3' for each pattern of the kind found in the text, in
\* tenths.
TextConfidence(kind, text) ==
    3 * Cardinality({ n \in 1 .. PatternCount(kind) : << kind, n >> \in text })

\* The test of a kind's confidence with every kind reported.
TextReportsAny(confidence) == TRUE

\* 'if confidence > 0.2'.
TextReports(confidence) == confidence > 2

\* detect_text_based_captcha: the kinds whose patterns the text matches,
\* each with its score min(confidence, 1.0).
DetectTextBased(text) ==
    LET types == SelectSeq(TextKinds, LAMBDA k : TextReports(TextConfidence(k, text)))
    IN  [detected |-> types # << >>,
         types    |-> types,
         scores   |-> [k \in { types[p] : p \in DOMAIN types } |->
                          Min(TextConfidence(k, text), 10)]]

Location(type, confidence) == [type |-> type, confidence |-> confidence]

\* detect_visual_captcha: rectangles, a grid (an image wider and higher than
\* 300) and text regions; a location carries the confidence of its shape,
\* the kind gets no score.
DetectVisual(img) ==
    LET rect == IF img.rectangles THEN << "checkbox_captcha" >> ELSE << >>
        grid == IF img.large THEN << "image_grid_captcha" >> ELSE << >>
        txt  == IF img.text_regions THEN << "text_captcha" >> ELSE << >>
    IN  [detected  |-> img.rectangles \/ img.large \/ img.text_regions,
         types     |-> (rect \o grid) \o txt,
         locations |-> ((IF img.rectangles THEN << Location("rectangle", 7) >> ELSE << >>)
                        \o (IF img.large THEN << Location("grid", 5) >> ELSE << >>))
                        \o (IF img.text_regions THEN << Location("text_region", 6) >> ELSE << >>)]

\* detect_color_patterns: more than 1% green, more than 2% blue pixels.
DetectColor(img) ==
    [detected |-> img.green \/ img.blue,
     types    |-> (IF img.green THEN << "color_indicator_captcha" >> ELSE << >>)
                  \o (IF img.blue THEN << "button_captcha" >> ELSE << >>)]

\* Extend that replaces what the list held.
ExtendReplace(list, more) == more

\* list.extend(more).
Extend(list, more) == list \o more

\* generate_recommendations: the groups of recommendations, without
\* duplicates (list(set(...))).
GenerateRecommendations(detected, types) ==
    IF ~detected THEN { "proceed" }
    ELSE ({ types[p] : p \in DOMAIN types }
            \cap { "recaptcha", "hcaptcha", "image_captcha", "checkbox_captcha",
                   "image_grid_captcha" })
         \cup { "general" }

\* detect_from_screenshot: an image that cannot be decoded raises inside the
\* try and gives the 'error' dict; otherwise the three detections run, each
\* one extending captcha_types, the text detection alone giving scores.
DetectFromScreenshot(img) ==
    IF ~img.decodable
    THEN [captcha_detected |-> FALSE, error |-> TRUE, captcha_types |-> << >>,
          confidence_scores |-> << >>, locations |-> << >>, recommendations |-> { }]
    ELSE LET text     == DetectTextBased(SimulatedText)
             visual   == DetectVisual(img)
             color    == DetectColor(img)
             types1   == IF text.detected THEN Extend(<< >>, text.types) ELSE << >>
             types2   == IF visual.detected THEN Extend(types1, visual.types) ELSE types1
             types3   == IF color.detected THEN Extend(types2, color.types) ELSE types2
             detected == text.detected \/ visual.detected \/ color.detected
         IN  [captcha_detected  |-> detected,
              error             |-> FALSE,
              captcha_types     |-> types3,
              confidence_scores |-> IF text.detected THEN text.scores ELSE << >>,
              locations         |-> IF visual.detected THEN visual.locations ELSE << >>,
              recommendations   |-> GenerateRecommendations(detected, types3)]

\* What the analysis of a screenshot can find; an image that cannot be
\* decoded is not analysed.
Images ==
    { img \in [decodable : BOOLEAN, rectangles : BOOLEAN, large : BOOLEAN,
               text_regions : BOOLEAN, green : BOOLEAN, blue : BOOLEAN] :
          ~img.decodable =>
              ~(img.rectangles \/ img.large \/ img.text_regions \/ img.green \/ img.blue) }

NoImage ==
    [decodable |-> FALSE, rectangles |-> FALSE, large |-> FALSE,
     text_regions |-> FALSE, green |-> FALSE, blue |-> FALSE]

\* main of captcha_detector.py: without an argument it prints a failure
\* dict; otherwise it prints the detection results under 'success': True.
DetMain ==
    /\ prog = "detector" /\ pc = "det_main"
    /\ IF argv = "none"
       THEN /\ printed' = Append(printed, Printed(FALSE, { "success", "error" }))
            /\ UNCHANGED detection
            /\ pc' = "exit"
       ELSE /\ detection' = Append(detection, DetectFromScreenshot(image))
            /\ printed' = Append(printed, Printed(TRUE, { "success", "detection_results" }))
            /\ pc' = "done"
    /\ UNCHANGED <<prog, actions, i, browser, closeCount, captcha, results, logs,
                   screenshots, reports, cancelled, trace, argv, escaped,
                   extracted_data, last>>
    /\ UNCHANGED solverVars
    /\ UNCHANGED <<image, contact, chan, sendLog, sendResult, cur, other>>
    /\ UNCHANGED appVars

-----------------------------------------------------------------------------
(* NotificationSystem *)

\* The contact_info given to send: an address with '@', a number that starts
\* with '+', anything else (a device id), and a text that starts with '+'
\* and has an '@' in it.
Contacts == { "email", "phone", "device", "plus_at" }

\* '@' in contact_info.
HasAt(c) == c \in { "email", "plus_at" }

\* contact_info.startswith('+').
StartsWithPlus(c) == c \in { "phone", "plus_at" }

\* NsChannels with the test of the '+' made first.
NsChannelsPlusFirst(c) ==
    IF StartsWithPlus(c) THEN << "sms", "push", "email" >>
    ELSE IF HasAt(c) THEN << "email", "sms", "push" >>
    ELSE << "push", "email", "sms" >>

\* send: the order of the channels for a contact.
NsChannels(c) ==
    IF HasAt(c) THEN << "email", "sms", "push" >>
    ELSE IF StartsWithPlus(c) THEN << "sms", "push", "email" >>
    ELSE << "push", "email", "sms" >>

\* What the transport of a channel answers to each attempt _send_via_channel
\* could make.
TransportAnswers == [1 .. RetryCount -> { "ok", "error" }]

\* send_email / send_sms / send_push: the whole body is in a try whose
\* except clause returns False, so a transport error is a False result and
\* no exception reaches the caller.
SendOn(channel, answer) == answer = "ok"

\* _send_via_channel from its attempt-th pass of 'for attempt in
\* range(self.retry_count)': the pass returns what the send method returned,
\* True or False; a channel without a branch does nothing in each pass and
\* falls to 'return False' after the loop.
RECURSIVE SendViaChannel(_, _, _)
SendViaChannel(channel, answers, attempt) ==
    IF attempt = RetryCount THEN [ok |-> FALSE, sends |-> 0]
    ELSE IF channel \in { "email", "sms", "push" }
    THEN [ok |-> SendOn(channel, answers[attempt + 1]), sends |-> 1]
    ELSE SendViaChannel(channel, answers, attempt + 1)

\* One pass of the cascade of send: the first channel that reports success
\* ends it with True, the last channel that fails ends it with False.
NsSendViaChannel ==
    /\ prog = "notification" /\ pc = "send"
    /\ \E answers \in TransportAnswers :
          LET channel == NsChannels(contact)[chan]
              got     == SendViaChannel(channel, answers, 0)
          IN  /\ sendLog' = Append(sendLog, [channel |-> channel, sends |-> got.sends,
                                            ok |-> got.ok])
              /\ IF got.ok
                 THEN /\ sendResult' = Append(sendResult, TRUE)
                      /\ chan' = chan
                      /\ pc' = "done"
                 ELSE IF chan = Len(NsChannels(contact))
                 THEN /\ sendResult' = Append(sendResult, FALSE)
                      /\ chan' = chan
                      /\ pc' = "done"
                 ELSE /\ UNCHANGED sendResult
                      /\ chan' = chan + 1
                      /\ pc' = pc
    /\ UNCHANGED <<prog, actions, i, browser, closeCount, captcha, results, logs,
                   screenshots, reports, cancelled, trace, argv, printed, escaped,
                   extracted_data, last>>
    /\ UNCHANGED solverVars
    /\ UNCHANGED <<image, detection, contact, cur, other>>
    /\ UNCHANGED appVars

-----------------------------------------------------------------------------
(* Free Services Hub *)

\* REGISTERED_MODULE_CLASSES: the module ids that are registered, and one
\* that a request can name without its being registered.
Registered == { "duckdns_subdomain" }

ModuleIds == Registered \cup { "unregistered" }

\* required_config_fields of a module class.
RequiredConfigFields(module_id) == { "token", "domain_to_manage" }

\* The config of a request: the set of its keys.
Configs == SUBSET { "token", "domain_to_manage", "note" }

\* The service_instance_id of a request.
InstanceIds == { "a", "b" }

InstanceData(module_id, config) == [module_id |-> module_id, config |-> config]

\* No entry under an id (the .get(service_instance_id) that gives None).
NoInstance == InstanceData("none", { })

NoInstances == [id \in InstanceIds |-> NoInstance]

Response(op, status) == [op |-> op, status |-> status]

NoResponse == Response("none", 0)

\* A request was handled: FastAPI turns an HTTPException into the response
\* of its status code and a returned value into a 200.
Respond(op, status) ==
    /\ response' = Response(op, status)
    /\ nreq' = nreq + 1

\* HasRequired with the validation loop left out.
HasRequiredAny(module_id, config) == TRUE

\* 'for field in module_class.required_config_fields: if field not in config'.
HasRequired(module_id, config) == RequiredConfigFields(module_id) \subseteq config

\* What module_class(user_config=config).connect() does in connect_service:
\* DuckDNSModule.connect returns True or False and catches what its body
\* raises; an exception leaves it only from its except clause (the print
\* in it).
ConnectOutcomes == { "connected", "not_connected", "raises" }

\* connect_service: 404 for a module that is not registered, 400 for a
\* missing required field; then the entry is stored, and only then the
\* module is connected: a connect that raises gives a 500.
HubConnectService ==
    /\ prog = "hub" /\ pc = "serve" /\ nreq < MaxRequests
    /\ \E id \in InstanceIds, module_id \in ModuleIds, config \in Configs,
          out \in ConnectOutcomes :
          IF module_id \notin Registered
          THEN /\ Respond("connect", 404)
               /\ UNCHANGED instances
          ELSE IF ~HasRequired(module_id, config)
          THEN /\ Respond("connect", 400)
               /\ UNCHANGED instances
          ELSE /\ instances' = [instances EXCEPT ![id] = InstanceData(module_id, config)]
               /\ Respond("connect", IF out = "raises" THEN 500 ELSE 200)
    /\ UNCHANGED <<prog, pc>>
    /\ UNCHANGED runVars
    /\ UNCHANGED solverVars
    /\ UNCHANGED toolVars
    /\ UNCHANGED <<ocr, services, unique>>

\* get_service_status: 404 without an entry; DuckDNSModule.get_status
\* builds a dict and raises nothing.
HubGetServiceStatus ==
    /\ prog = "hub" /\ pc = "serve" /\ nreq < MaxRequests
    /\ \E id \in InstanceIds :
          Respond("status", IF instances[id] = NoInstance THEN 404 ELSE 200)
    /\ UNCHANGED <<prog, pc, instances>>
    /\ UNCHANGED runVars
    /\ UNCHANGED solverVars
    /\ UNCHANGED toolVars
    /\ UNCHANGED <<ocr, services, unique>>

\* The action_name of a request: a method of the module, the one action
\* perform_action of DuckDNSModule knows, a name that is neither.
ActionNames == { "get_status", "update_ip", "bogus" }

\* perform_service_action with an entry: a method of that name is called
\* with the params as keyword arguments (get_status takes none: TypeError,
\* 500); otherwise perform_action, which raises NotImplementedError for a
\* name it does not know (400), and for update_ip returns what create_record
\* gives or lets out what it raises before its try (500).
PerformStatus(name, params, out) ==
    IF name = "get_status" THEN (IF params THEN 500 ELSE 200)
    ELSE IF name = "update_ip" THEN (IF out = "raises" THEN 500 ELSE 200)
    ELSE 400

HubPerformServiceAction ==
    /\ prog = "hub" /\ pc = "serve" /\ nreq < MaxRequests
    /\ \E id \in InstanceIds, name \in ActionNames, params \in BOOLEAN,
          out \in { "ok", "raises" } :
          Respond("action", IF instances[id] = NoInstance THEN 404
                            ELSE PerformStatus(name, params, out))
    /\ UNCHANGED <<prog, pc, instances>>
    /\ UNCHANGED runVars
    /\ UNCHANGED solverVars
    /\ UNCHANGED toolVars
    /\ UNCHANGED <<ocr, services, unique>>

-----------------------------------------------------------------------------
(* Service Template Updater *)

\* The ids, sources and names of the services the discovery collected.
ServiceIds == { "x", "y" }

Sources == { "a", "b" }

Names == { "n1", "n2" }

\* A sources list that is not there: a service has the key 'sources' only
\* after a merge, and a list a merge made holds at least one source.
NoSources == << >>

\* A discovered service: 'id', 'source', and 'name' for the rest of it.
Service(id, source, name) ==
    [id |-> id, source |-> source, name |-> name, sources |-> NoSources]

Discovered == { Service(id, source, name) :
                  id \in ServiceIds, source \in Sources, name \in Names }

\* all_services: the lists of up to MaxServices discovered services.
ServiceLists == UNION { [1..n -> Discovered] : n \in 0..MaxServices }

\* existing.get('sources', [existing['source']]).
SourcesOf(existing) ==
    IF existing.sources = NoSources THEN <<existing.source>> ELSE existing.sources

InList(x, list) == \E n \in DOMAIN list : list[n] = x

\* AddSource without the membership test.
AddSourceAlways(sources, source) == Append(sources, source)

\* 'if service['source'] not in existing['sources']: ...append(...)'.
AddSource(sources, source) ==
    IF InList(source, sources) THEN sources ELSE Append(sources, source)

\* The else branch: the first service of unique_services with that id gets
\* its sources list, with the source of the duplicate in it.
Merge(unique_services, service) ==
    LET e == CHOOSE k \in DOMAIN unique_services :
                 /\ unique_services[k].id = service.id
                 /\ \A j \in 1..(k - 1) : unique_services[j].id # service.id
    IN [unique_services EXCEPT
           ![e].sources = AddSource(SourcesOf(unique_services[e]), service.source)]

\* The loop of deduplicate_services from a given position on.
RECURSIVE DeduplicateFrom(_, _, _)
DeduplicateFrom(list, seen_ids, unique_services) ==
    IF list = << >> THEN unique_services
    ELSE LET service == Head(list)
         IN IF service.id \notin seen_ids
            THEN DeduplicateFrom(Tail(list), seen_ids \cup { service.id },
                                 Append(unique_services, service))
            ELSE DeduplicateFrom(Tail(list), seen_ids,
                                 Merge(unique_services, service))

DeduplicateServices(list) == DeduplicateFrom(list, { }, << >>)

\* update_templates: the services of all sources are deduplicated.
UpdDeduplicate ==
    /\ prog = "updater" /\ pc = "discovered"
    /\ unique' = DeduplicateServices(services)
    /\ pc' = "deduplicated"
    /\ UNCHANGED <<prog, services, ocr, instances, response, nreq>>
    /\ UNCHANGED runVars
    /\ UNCHANGED solverVars
    /\ UNCHANGED toolVars

-----------------------------------------------------------------------------
(* Two runs in one event loop *)

\* The attributes of an instance (self.browser, self.results, ...), the
\* locals of its coroutine and what its caller got from it.
Instance(a, p, k, b, cc, cp, rs, lg, sh, rp, cn, tr, pr, es, ed, la) ==
    [actions |-> a, pc |-> p, i |-> k, browser |-> b, closeCount |-> cc,
     captcha |-> cp, results |-> rs, logs |-> lg, screenshots |-> sh,
     reports |-> rp, cancelled |-> cn, trace |-> tr, printed |-> pr,
     escaped |-> es, extracted_data |-> ed, last |-> la]

\* The run that is running.
Running ==
    Instance(actions, pc, i, browser, closeCount, captcha, results, logs,
             screenshots, reports, cancelled, trace, printed, escaped,
             extracted_data, last)

\* __init__ and the start of the run: no browser, empty lists.
Fresh(p, a) ==
    Instance(a, IF p = "advanced" THEN "initialize_browser" ELSE "setup_browser",
             1, FALSE, 0, FALSE, <<>>, <<>>, <<>>, <<>>, FALSE, <<>>, <<>>, "none",
             <<>>, NoLast)

\* Own with the attribute on the class: both instances see one list.
OwnShared(shared, own) == shared

\* An attribute assigned in __init__ ('self.results = []') belongs to the
\* instance: the run that resumes finds its own value.
Own(shared, own) == own

\* The event loop suspends the running coroutine at a suspension point and
\* resumes the other one: each coroutine goes on with its own instance.
Switch ==
    /\ prog \in RunProgs
    /\ other.pc # "done"
    /\ cur' = 3 - cur
    /\ other' = Running
    /\ actions' = other.actions
    /\ pc' = other.pc
    /\ i' = other.i
    /\ browser' = Own(browser, other.browser)
    /\ closeCount' = other.closeCount
    /\ captcha' = other.captcha
    /\ results' = Own(results, other.results)
    /\ logs' = Own(logs, other.logs)
    /\ screenshots' = Own(screenshots, other.screenshots)
    /\ reports' = other.reports
    /\ cancelled' = other.cancelled
    /\ trace' = other.trace
    /\ printed' = other.printed
    /\ escaped' = other.escaped
    /\ extracted_data' = other.extracted_data
    /\ last' = other.last
    /\ UNCHANGED <<prog, argv>>
    /\ UNCHANGED solverVars
    /\ UNCHANGED <<image, detection, contact, chan, sendLog, sendResult>>
    /\ UNCHANGED appVars

\* The action lists of the two runs: no type is in both.
TwoActions ==
    << { << "fill" >>, << "screenshot", "notype" >> },
       { << "click" >>, << "extract" >> } >>

-----------------------------------------------------------------------------

NoKeys == [a \in Adapters |-> FALSE]

InitRun ==
    /\ prog \in RunProgs
    /\ argv \in Argvs
    /\ actions \in (IF argv = "ok" THEN ActionSeqs ELSE { <<>> })
    /\ pc = "main"
    /\ keys = NoKeys
    /\ ai_model = "none"
    /\ captcha_type = "none"
    /\ ocr = NoOcr

InitSolver ==
    /\ actions = <<>>
    /\ argv = "none"
    /\ \/ /\ prog = "intelligent"
          /\ pc = "ai_vision"
          /\ keys \in [Adapters -> BOOLEAN]
          /\ ai_model \in AiModels
          /\ captcha_type = "none"
          /\ ocr = NoOcr
       \/ /\ prog = "aisolver"
          /\ pc = "solve_captcha"
          /\ keys \in { k \in [Adapters -> BOOLEAN] : ~k["openai"] /\ ~k["anthropic"] }
          /\ ai_model = "none"
          /\ captcha_type \in CaptchaTypes
          /\ ocr \in OcrFor(captcha_type)

InitNoTool ==
    /\ image = NoImage
    /\ contact = "none"
    /\ services = << >>

InitDetector ==
    /\ prog = "detector"
    /\ pc = "det_main"
    /\ argv \in { "none", "ok" }
    /\ image \in (IF argv = "ok" THEN Images ELSE { NoImage })
    /\ contact = "none"
    /\ services = << >>
    /\ ocr = NoOcr
    /\ actions = <<>>
    /\ keys = NoKeys
    /\ ai_model = "none"
    /\ captcha_type = "none"

InitNotification ==
    /\ prog = "notification"
    /\ pc = "send"
    /\ argv = "none"
    /\ image = NoImage
    /\ contact \in Contacts
    /\ services = << >>
    /\ ocr = NoOcr
    /\ actions = <<>>
    /\ keys = NoKeys
    /\ ai_model = "none"
    /\ captcha_type = "none"

\* No solver, no run: the scripts that take neither actions nor keys.
InitNoSolver ==
    /\ actions = << >>
    /\ argv = "none"
    /\ keys = NoKeys
    /\ ai_model = "none"
    /\ captcha_type = "none"
    /\ ocr = NoOcr

\* The hub after the module is loaded: no instance is configured.
InitHub ==
    /\ prog = "hub"
    /\ pc = "serve"
    /\ InitNoSolver
    /\ InitNoTool

\* The updater after discover_new_services: all_services is collected.
InitUpdater ==
    /\ prog = "updater"
    /\ pc = "discovered"
    /\ InitNoSolver
    /\ image = NoImage
    /\ contact = "none"
    /\ services \in ServiceLists

\* The state all scripts start from.
InitCommon ==
    /\ detection = <<>>
    /\ chan = 1
    /\ sendLog = <<>>
    /\ sendResult = <<>>
    /\ i = 1
    /\ browser = FALSE
    /\ closeCount = 0
    /\ captcha = FALSE
    /\ results = <<>>
    /\ logs = <<>>
    /\ screenshots = <<>>
    /\ reports = <<>>
    /\ cancelled = FALSE
    /\ trace = <<>>
    /\ printed = <<>>
    /\ escaped = "none"
    /\ extracted_data = <<>>
    /\ last = NoLast
    /\ calls = <<>>
    /\ netCalls = <<>>
    /\ polls = NoPolls
    /\ solved = <<>>
    /\ instances = NoInstances
    /\ response = NoResponse
    /\ nreq = 0
    /\ unique = << >>

Init ==
    /\ \/ (InitRun \/ InitSolver) /\ InitNoTool
       \/ InitDetector
       \/ InitNotification
       \/ InitHub
       \/ InitUpdater
    /\ cur = 1
    /\ other = Fresh(prog, <<>>)
    /\ InitCommon

\* Two instances of one script, created and started in the same event loop.
InitTwo ==
    /\ prog \in RunProgs
    /\ argv = "ok"
    /\ actions \in TwoActions[1]
    /\ pc = Fresh(prog, actions).pc
    /\ keys = NoKeys
    /\ ai_model = "none"
    /\ captcha_type = "none"
    /\ ocr = NoOcr
    /\ InitNoTool
    /\ cur = 1
    /\ \E a \in TwoActions[2] : other = Fresh(prog, a)
    /\ InitCommon

\* The steps the scripts take themselves.
Steps ==
    \/ Main
    \/ AdvInitializeBrowser
    \/ AdvInitialGoto
    \/ AdvHandleCaptcha
    \/ AdvLoopBody
    \/ AdvAwaitForever
    \/ AdvFinal
    \/ BkSetupBrowser
    \/ BkInitialGoto
    \/ BkLoopBody
    \/ BkDetectCaptcha
    \/ BkEmailVerification
    \/ BkFinal
    \/ IcsAiVision
    \/ IcsTwoCaptcha
    \/ IcsAntiCaptcha
    \/ AcsSolveCaptcha
    \/ AcsExternal
    \/ AcsTwoCaptcha
    \/ AcsAntiCaptcha
    \/ AcsDirect
    \/ AcsGenericText
    \/ AcsGenericMath
    \/ AcsGenericSimple
    \/ DetMain
    \/ NsSendViaChannel
    \/ HubConnectService
    \/ HubGetServiceStatus
    \/ HubPerformServiceAction
    \/ UpdDeduplicate

\* Cancellation comes from outside the run.
Next ==
    \/ Steps
    \/ Cancel

Spec == Init /\ [][Next]_vars

\* The event loop and the interpreter go on with a script as long as it has a
\* step to take; nobody is bound to cancel a run.
SpecLive == Init /\ [][Next]_vars /\ WF_vars(Steps)

NextTwo ==
    \/ AdvInitializeBrowser
    \/ AdvInitialGoto
    \/ AdvHandleCaptcha
    \/ AdvLoopBody
    \/ AdvFinal
    \/ BkSetupBrowser
    \/ BkInitialGoto
    \/ BkLoopBody
    \/ BkDetectCaptcha
    \/ BkEmailVerification
    \/ BkFinal
    \/ Cancel
    \/ Switch

SpecTwo == InitTwo /\ [][NextTwo]_vars

-----------------------------------------------------------------------------
(* Observations used by the properties *)

IsRun == prog \in RunProgs

\* A cascade of solvers is running: solve_captcha of IntelligentCaptchaSolver,
\* or solve_recaptcha_v2 / solve_hcaptcha / solve_generic of AICaptchaSolver.
IsCascade ==
    \/ prog = "intelligent"
    \/ prog = "aisolver" /\ captcha_type \in CascadeTypes

Finished == pc = "done"

\* The run returned a success report (Completed).
Completed == Len(reports) = 1 /\ reports[1].success

\* The positions of the trace that are calls of execute_action / checks.
ExecAt == { p \in DOMAIN trace : trace[p].ev = "exec" }

CheckAt == { p \in DOMAIN trace : trace[p].ev = "check" }

\* A call of execute_action that did not give a success / completed result.
ExecFailed(e) == e.ev = "exec" /\ e.res \in { "failed", "action_error", "raised" }

\* A check that reported an obstacle.
Detected(e) == e.ev = "check" /\ e.res = "captcha"

\* Number of calls of execute_action that produced a result for action k.
ExecCount(k) ==
    Cardinality({ p \in ExecAt : trace[p].at = k /\ trace[p].res # "raised" })

-----------------------------------------------------------------------------
(* Properties *)

\* C1: a run during which no check detects an obstacle executes every action
\* of the sequence and ends Completed with one action result per action.
\* Stated for the runs that neither a session crash nor a cancellation ended
\* (those end Aborted by the design's own state machine), that is, for the
\* runs that return a success report.
C1_NoObstacleRunExecutesAll ==
    (IsRun /\ Finished /\ Completed /\ \A p \in CheckAt : ~Detected(trace[p]))
        => \A k \in 1..Len(actions) : ExecCount(k) = 1

\* C2: once an action has failed (no retry budget), no later action of the
\* sequence is executed and the run does not end Completed.
C2_FailedActionAborts ==
    IsRun =>
        /\ \A p, q \in ExecAt : (p < q /\ ExecFailed(trace[p])) => FALSE
        /\ (\E p \in ExecAt : ExecFailed(trace[p])) => ~Completed

\* C3: once a check has detected an obstacle that no solver resolves (the run
\* scripts call no solver, so none is ever resolved), the run aborts: no
\* action is executed after the detection and the run does not end Completed.
C3_UnresolvedObstacleAborts ==
    IsRun =>
        /\ \A p \in CheckAt, q \in ExecAt : (p < q) => ~Detected(trace[p])
        /\ (\E p \in CheckAt : Detected(trace[p])) => ~Completed

\* C4: an obstacle reported after an action pre-empts it: when the check
\* that follows the execution of action k reports an obstacle and the run
\* goes on to Completed, action k is executed again after the handling.
C4_ObstacleReRunsAction ==
    (IsRun /\ Finished /\ Completed) =>
        \A p \in ExecAt :
            (p < Len(trace) /\ Detected(trace[p + 1]))
                => \E q \in ExecAt : q > p /\ trace[q].at = trace[p].at

\* C5 as claimed: in a Completed run an obstacle check happens before the
\* first action, between any two consecutive executed actions and after the
\* last action, and a check that reports an obstacle is followed by handling.
C5_CheckBeforeAndAfterEveryAction ==
    (IsRun /\ Finished /\ Completed) =>
        /\ \A p \in ExecAt : \E c \in CheckAt : c < p /\ \A q \in ExecAt : ~(c < q /\ q < p)
        /\ \A p \in ExecAt : \E c \in CheckAt : p < c
        /\ \A c \in CheckAt : Detected(trace[c]) =>
              (c < Len(trace) /\ trace[c + 1].ev = "handle")

\* C5 amended: run_automation checks once before every action, so before the
\* first action and between any two consecutive executed actions, a check
\* that reports a captcha is followed by the handling (screenshot and wait)
\* before the pending action runs, and no check follows the last action;
\* PlaywrightAutomator.run checks once, after the whole sequence, and only
\* records what it found.
C5_CheckBeforeEachAction ==
    /\ prog = "advanced" =>
          /\ \A p \in ExecAt :
                \/ /\ p > 1
                   /\ trace[p - 1] = Event("check", trace[p].at, "none")
                \/ /\ p > 2
                   /\ trace[p - 1] = Event("handle", trace[p].at, "waited")
                   /\ trace[p - 2] = Event("check", trace[p].at, "captcha")
          /\ \A p, q \in ExecAt : (p < q) => \E c \in CheckAt : p < c /\ c < q
          /\ \A c \in CheckAt :
                Detected(trace[c]) => (c < Len(trace) /\ trace[c + 1].ev = "handle")
          /\ Completed => (trace = <<>> \/ trace[Len(trace)].ev = "exec")
    /\ prog = "backup" =>
          /\ \A c \in CheckAt : c = Len(trace)
          /\ \A p \in DOMAIN trace : trace[p].ev # "handle"

C5_Witness ==
    /\ prog = "advanced" /\ Finished /\ Completed
    /\ Len(actions) = MaxActions
    /\ Cardinality(ExecAt) = MaxActions
    /\ \E c \in CheckAt : Detected(trace[c]) /\ trace[c].at = MaxActions

\* C6: on every exit path of a run whose browser was started (return,
\* exception, cancellation) close() is called exactly once; it is never
\* called twice, and never for a browser that was not started.
C6_CloseExactlyOnce ==
    IsRun =>
        /\ closeCount <= 1
        /\ Finished => closeCount = (IF browser THEN 1 ELSE 0)

C6_Witness ==
    /\ IsRun /\ Finished /\ cancelled /\ browser
    /\ closeCount = 1
    /\ ExecAt # {}

\* The candidates invoked so far, in the order of their invocation.
Candidates == [p \in DOMAIN calls |-> calls[p].candidate]

IsPrefix(s, t) == Len(s) <= Len(t) /\ \A p \in DOMAIN s : s[p] = t[p]

\* The fixed orders of the claim.
IcsOrder == << "ai_vision", "2captcha", "anticaptcha" >>

AcsOrder == SelectSeq(<< "2captcha", "anticaptcha" >>, LAMBDA a : keys[a])

GenericOrder == << "text_captcha", "math_captcha", "simple_text" >>

FullOrder ==
    IF prog = "intelligent" THEN IcsOrder
    ELSE IF captcha_type = "unknown" THEN GenericOrder
    ELSE AcsOrder

\* C7: a cascade invokes its candidates in its fixed order (AI vision,
\* 2captcha, anticaptcha in solve_captcha; 2captcha, anticaptcha in
\* solve_recaptcha_v2 / solve_hcaptcha) and invokes no candidate after one
\* that succeeded: the successful result is what the cascade returns.
C7_CascadeInOrder ==
    IsCascade =>
        /\ IsPrefix(Candidates, FullOrder)
        /\ \A p \in DOMAIN calls :
              calls[p].success =>
                  /\ p = Len(calls)
                  /\ Finished
                  /\ Len(solved) = 1 /\ solved[1].success
                  /\ solved[1].method = calls[p].method
                  /\ solved[1].confidence = calls[p].confidence

C7_Witness ==
    /\ prog = "intelligent" /\ Finished
    /\ Len(calls) = 2
    /\ calls[2].success

\* The key a candidate of solve_captcha needs, "none" if ai_model names no
\* model with an adapter.
NeedsKey(candidate) ==
    IF candidate # "ai_vision" THEN candidate
    ELSE IF ai_model = "gpt-4-vision" THEN "openai"
    ELSE IF ai_model = "claude-3-opus" THEN "anthropic"
    ELSE "none"

Unconfigured(candidate) ==
    NeedsKey(candidate) = "none" \/ ~keys[NeedsKey(candidate)]

\* C8: an adapter whose key is absent sends no request: its candidate fails
\* at once as not available, and the cascade goes on to the next candidate.
C8_UnconfiguredNeverCalled ==
    IsCascade =>
        /\ \A p \in DOMAIN netCalls : keys[netCalls[p]]
        /\ prog = "intelligent" =>
              /\ \A p \in DOMAIN calls :
                    /\ Unconfigured(calls[p].candidate) <=> calls[p].error = "not_available"
                    /\ (calls[p].error = "not_available" /\ p < Len(IcsOrder)) =>
                          \/ Len(calls) > p
                          \/ pc = IcsOrder[p + 1]
              /\ Len(netCalls) =
                    Cardinality({ p \in DOMAIN calls : calls[p].error # "not_available" })

C8_Witness ==
    /\ prog = "intelligent" /\ Finished
    /\ ai_model = "gpt-4-vision"
    /\ ~keys["openai"]
    /\ Len(calls) >= 2
    /\ calls[1].error = "not_available"
    /\ netCalls # <<>>

\* C9: execute_action never raises to its caller, whatever the action: it
\* returns a result for an action with a missing or unknown type, a missing
\* selector or a browser operation that throws.
C9_ExecuteNeverRaises ==
    IsRun => \A p \in ExecAt : trace[p].res # "raised"

\* C10: a cascade returns exactly one result; a failure is returned only
\* after every candidate was attempted or skipped as not configured, it is
\* then the terminal failure, and no Solution is returned when no candidate
\* succeeded.
C10_ExhaustedCascadeFails ==
    IsCascade =>
        /\ Len(solved) = (IF Finished THEN 1 ELSE 0)
        /\ Finished =>
              LET r == solved[1]
                  accepted == \E p \in DOMAIN calls : calls[p].success
              IN  /\ r.success <=> accepted
                  /\ (~r.success /\ r.method # "error") => Candidates = FullOrder
                  /\ (~accepted /\ Candidates = FullOrder /\ calls # <<>>) =>
                        (~r.success /\ r.error = "all_failed")

C10_Witness ==
    /\ prog = "intelligent" /\ Finished
    /\ Len(calls) = 3
    /\ solved[1].error = "all_failed"
    /\ netCalls # <<>>

-----------------------------------------------------------------------------
(* Properties of the process boundary and of the report *)

\* main is over: it returned or an exception left it.
Exited == pc \in { "done", "exit" }

\* The failure dicts main printed.
PrintedFailures == { p \in DOMAIN printed : ~printed[p].success }

C12_ReportReflectsFinalState ==
    (IsRun /\ Finished /\ Completed) =>
        /\ \A k \in 1..Len(actions) : ExecCount(k) >= 1
        /\ \A p \in ExecAt : ~ExecFailed(trace[p])
        /\ \A p \in CheckAt : ~Detected(trace[p])

\* What the run had recorded as results when it ended: extracted_data in
\* run_automation, self.results in PlaywrightAutomator.
Recorded == IF prog = "advanced" THEN extracted_data ELSE results

\* C13: the report an aborted run returns holds every action result, log
\* entry and screenshot recorded before the failure, unchanged and in order.
C13_PartialProgressPreserved ==
    (IsRun /\ Finished /\ Len(reports) = 1 /\ ~reports[1].success) =>
        /\ reports[1].results = Recorded
        /\ reports[1].logs = logs
        /\ reports[1].screenshots = screenshots

\* The run is in a terminal state: it returned its report, or it was ended
\* by a cancellation or by an exception of the finally clause.
Terminal == IsRun /\ (Finished \/ reports # <<>> \/ cancelled)

\* C14: a terminal state is final: once the run is Completed or Aborted no
\* action is executed, no obstacle check is made, no browser operation is
\* performed and nothing of the run changes any more; and the browser, if
\* one was started, has been closed when the terminal state is entered.
C14_TerminalStatesFinal ==
    /\ [](Terminal => (Finished /\ closeCount = (IF browser THEN 1 ELSE 0)))
    /\ [][Terminal => UNCHANGED <<pc, i, trace, last, browser, closeCount, captcha,
                                  results, logs, screenshots, extracted_data,
                                  reports, printed, escaped>>]_vars

\* A run aborted by an exception after its first action, torn down.
C14_Witness ==
    /\ IsRun /\ Finished /\ ~cancelled
    /\ Len(reports) = 1 /\ ~reports[1].success
    /\ Cardinality(ExecAt) = 1 /\ Len(actions) = 2
    /\ browser /\ closeCount = 1

\* C15: a run produces exactly one report, finalized once at the end of the
\* run as success or failure, never none and never two. Stated for the runs
\* that were not cancelled.
C15_ExactlyOneReport ==
    IsRun =>
        /\ Len(reports) <= 1
        /\ (Finished /\ ~cancelled) => Len(reports) = 1

\* The number of calls of execute_action up to position p of the trace.
ExecOrdinal(p) == Cardinality({ q \in ExecAt : q <= p })

\* The results execute_action can give for an action of a type.
ResultsOf(type) ==
    IF prog = "advanced"
    THEN { AdvExecuteAction(type, out) : out \in { o \in AdvOutcomes(type) : Returns(o) } }
    ELSE { BkExecuteAction(type, out) : out \in BkOutcomes(type) }

\* C16: the actions of a run are executed one at a time and in insertion
\* order: the n-th call of execute_action is for the n-th action of the
\* sequence and gives a result of that action, no action is executed twice
\* or out of order, and a call is made only after the call before it has
\* produced its result.
C16_ActionsInOrder ==
    IsRun =>
        /\ \A p \in ExecAt :
              /\ trace[p].at = ExecOrdinal(p)
              /\ trace[p].at <= Len(actions)
              /\ trace[p].res \in ResultsOf(actions[trace[p].at])
        /\ \A p, q \in ExecAt : p < q => trace[p].res # "raised"
        /\ pc \in { "handle_captcha", "execute_action", "bk_execute_action" } =>
              (i = Cardinality(ExecAt) + 1 /\ i <= Len(actions))

\* A Completed run of two different actions, both executed.
C16_Witness ==
    /\ prog = "backup" /\ Finished /\ Completed
    /\ actions = << "fill", "click" >>
    /\ Cardinality(ExecAt) = 2
    /\ trace[1].res = "action_error"

-----------------------------------------------------------------------------
(* Properties of the obstacle checks *)

\* A step that is a captcha check (detect_captcha ran to its end).
CheckStep ==
    /\ IsRun
    /\ Len(trace') > Len(trace)
    /\ trace'[Len(trace) + 1].ev = "check"

\* A step that is the email verification check of PlaywrightAutomator.
EmailStep ==
    /\ prog = "backup"
    /\ pc = "email_verification"
    /\ pc' = "final_screenshot"

\* C17 as claimed: a check leaves the page state, the session state and the
\* result log of the run unchanged, whether or not it finds an obstacle.
C17_DetectionChangesNothing ==
    [][(CheckStep \/ EmailStep) =>
          UNCHANGED <<captcha, browser, closeCount, last, results, logs,
                      screenshots, extracted_data>>]_vars

\* C17 amended: a check leaves the page state and the session state
\* unchanged; in run_automation it also leaves logs, screenshots and
\* extracted_data unchanged, while detect_captcha and
\* handle_email_verification of PlaywrightAutomator append one record to
\* results when they find their obstacle, and nothing when they find none.
C17_DetectionReadOnly ==
    [][(CheckStep \/ EmailStep) =>
          /\ UNCHANGED <<captcha, browser, closeCount, last, logs, screenshots,
                         extracted_data, actions, i>>
          /\ prog = "advanced" => UNCHANGED results
          /\ (CheckStep /\ prog = "backup") =>
                results' = IF captcha
                           THEN Append(results, Entry("captcha_detected", "-"))
                           ELSE results
          /\ EmailStep =>
                results' \in { results,
                               Append(results, Entry("email_verification_required", "-")) }]_vars

\* A check of PlaywrightAutomator that found a captcha after an action was
\* executed, and recorded it.
C17_Witness ==
    /\ prog = "backup" /\ pc = "email_verification"
    /\ ExecAt # {}
    /\ captcha
    /\ Detected(trace[Len(trace)])
    /\ results[Len(results)] = Entry("captcha_detected", "-")

-----------------------------------------------------------------------------
(* Properties of execute_action *)

\* The latest call of execute_action, which last describes.
LastExecAt == CHOOSE p \in ExecAt : \A q \in ExecAt : q <= p

LastExec == trace[LastExecAt]

\* C19: a click fails only after two strategies were attempted, the direct
\* click and then the scripted (JavaScript) click; no click is reported
\* failed after one strategy or after none.
C19_ClickTriesTwoStrategies ==
    (IsRun /\ ExecAt # {}) =>
        ((actions[LastExec.at] = "click" /\ ExecFailed(LastExec)) =>
            \E a, b \in DOMAIN last.ops :
                a < b /\ last.ops[a] = "click" /\ last.ops[b] = "evaluate_click")

\* The operations that empty a field and those that write into it.
ClearOps == { "clear", "fill_empty" }

WriteOps == { "fill", "type" }

\* C20: a fill clears the target field before it writes: whatever the field
\* held before, after a successful fill it holds exactly the new value, it
\* never holds the old content followed by the new, and every write
\* operation of a fill comes after a clear operation.
C20_FillClearsBeforeWrite ==
    (IsRun /\ ExecAt # {}) =>
        (actions[LastExec.at] = "fill" =>
            /\ ~ExecFailed(LastExec) => last.after = FillValue
            /\ last.after \in { last.before, <<>>, FillValue }
            /\ \A w \in DOMAIN last.ops :
                  last.ops[w] \in WriteOps =>
                      \E c \in DOMAIN last.ops : c < w /\ last.ops[c] \in ClearOps)

\* A successful fill of a field that held other content.
C20_Witness ==
    /\ prog = "backup" /\ ExecAt # {}
    /\ actions[LastExec.at] = "fill"
    /\ LastExec.res = "action_completed"
    /\ last.before = << "old" >>
    /\ last.after = << "new" >>

-----------------------------------------------------------------------------
(* Solver results and service polls *)

\* The acceptance threshold of a solving method, in tenths: 0.9 for the paid
\* services, 0.5 for every other method.
Threshold(method) == IF method \in { "2captcha", "anticaptcha" } THEN 9 ELSE 5

\* C21: every accepted solution has a confidence at or above the acceptance
\* threshold of its method (0.5, and 0.9 for the paid services): a candidate
\* result below the threshold is never the one a solver or a cascade returns
\* as a success.
C21_AcceptedMeetsThreshold ==
    /\ \A p \in DOMAIN calls :
          calls[p].success => calls[p].confidence >= Threshold(calls[p].method)
    /\ \A k \in DOMAIN solved :
          solved[k].success => solved[k].confidence >= Threshold(solved[k].method)

\* solve_generic returns an easyocr reading just above the default threshold.
C21_Witness ==
    /\ prog = "aisolver" /\ Finished
    /\ captcha_type = "unknown"
    /\ Len(calls) = 1 /\ calls[1].success
    /\ solved[1].method = "easyocr"
    /\ solved[1].confidence = 6

\* C22: a service adapter polls the job status at most MaxPolls times,
\* returns the solution exactly when a poll reports it ready, and reports a
\* timeout only after MaxPolls polls that all found the job not ready; an
\* error answer of the service is not reported as a timeout.
C22_PollsBoundedTimeoutHonest ==
    polls.service # "none" =>
        /\ calls # << >>
        /\ LET c == calls[Len(calls)]
           IN  /\ c.candidate = polls.service
               /\ polls.count <= MaxPolls
               /\ c.success <=> polls.answer = "ready"
               /\ c.error = "timeout" =>
                     (polls.count = MaxPolls /\ polls.answer = "not_ready")
               /\ polls.answer = "error" => c.error # "timeout"

\* The 'attempts' a returned dict names, none if it has no such key.
Attempts(r) == IF "attempts" \in DOMAIN r THEN r.attempts ELSE << >>

\* The candidates that were invoked and failed, in order.
FailedCandidates ==
    LET failed == SelectSeq(calls, LAMBDA c : ~c.success)
    IN  [p \in DOMAIN failed |-> failed[p].candidate]

\* C29: whenever a cascade returns, with a solution or with the terminal
\* failure, its result names exactly the candidates that were attempted and
\* failed before it.
C29_FailuresRecorded ==
    (IsCascade /\ Finished) => Attempts(solved[1]) = FailedCandidates

-----------------------------------------------------------------------------
(* The end of a run *)

\* The screenshots of a report, in the order they were taken: the
\* 'screenshots' list of the advanced script, the screenshot entries of
\* 'results' of the backup script.
ShotsOf(rep) ==
    IF prog = "advanced" THEN rep.screenshots
    ELSE LET shots == SelectSeq(rep.results,
                                LAMBDA e : e.type \in { "screenshot", "final_screenshot" })
         IN  [p \in DOMAIN shots |-> IF shots[p].type = "final_screenshot"
                                     THEN "Final screenshot" ELSE "Screenshot"]

\* The keys under which a success dict carries the page identity.
IdentityFields ==
    IF prog = "advanced" THEN { "final_url", "page_title" } ELSE { "url", "title" }

\* C24: every Completed report ends with the final screenshot and carries
\* the page identity: the final screenshot is the last screenshot recorded
\* and the only final one, it comes after the records of every action (it is
\* the last entry of the backup script's results), and the printed dict has
\* the final URL and the title.
C24_FinalScreenshotAndIdentity ==
    (IsRun /\ Finished /\ Completed) =>
        LET rep   == reports[1]
            shots == ShotsOf(rep)
        IN  /\ shots # << >>
            /\ shots[Len(shots)] = "Final screenshot"
            /\ \A p \in 1 .. (Len(shots) - 1) : shots[p] = "Screenshot"
            /\ prog = "backup" => rep.results[Len(rep.results)].type = "final_screenshot"
            /\ printed # << >>
            /\ printed[Len(printed)].success
            /\ IdentityFields \subseteq printed[Len(printed)].fields

\* A Completed run whose last action took a screenshot of its own.
C24_Witness ==
    /\ IsRun /\ Finished /\ Completed
    /\ actions # << >> /\ actions[Len(actions)] = "screenshot"
    /\ ShotsOf(reports[1]) = << "Screenshot", "Final screenshot" >>

\* handle_email_verification found an indicator during this run.
EmailRequired ==
    \E k \in DOMAIN results : results[k].type = "email_verification_required"

\* C25: a run that detected an email verification goes on only once the
\* external collaborator has yielded a link or a code, and is otherwise
\* aborted as verification_timeout. The run has no operation that receives a
\* link or a code, so a run that detected the obstacle is never reported
\* Completed.
C25_EmailVerificationAwaited ==
    (IsRun /\ Finished /\ EmailRequired) => ~Completed

\* The records of action results in the run's result log: the entries that
\* carry an action and its status.
ActionEntries ==
    SelectSeq(results, LAMBDA e : e.type \in { "action_completed", "action_error" })

\* The calls of execute_action so far, in order.
Execs == SelectSeq(trace, LAMBDA e : e.ev = "exec")

\* C28: every executed action has exactly one action result in the run's
\* result log, the results are in execution order, and an entry of the log
\* is never changed or removed once appended.
C28_OneResultPerAction ==
    /\ [](IsRun =>
            /\ Len(ActionEntries) = Len(Execs)
            /\ \A k \in DOMAIN ActionEntries :
                  /\ ActionEntries[k].action = actions[Execs[k].at]
                  /\ ActionEntries[k].type = Execs[k].res)
    /\ [][IsRun => IsPrefix(results, results')]_vars

-----------------------------------------------------------------------------
(* Properties of the detector *)

\* detect_from_screenshot returned.
Detected1 == prog = "detector" /\ detection # << >>

\* The kinds a returned dict reports.
KindsOf(d) == { d.captcha_types[p] : p \in DOMAIN d.captcha_types }

\* The results of the backup run of a type.
HasEntry(type) == \E k \in DOMAIN results : results[k].type = type

\* C23 as claimed: one check reports a single kind, never two: the
\* detector's output names at most one kind, and a run records a captcha or
\* an email verification, not both.
C23_SingleKindReported ==
    /\ Detected1 => Len(detection[1].captcha_types) <= 1
    /\ prog = "backup" =>
          ~(HasEntry("captcha_detected") /\ HasEntry("email_verification_required"))

\* The detection a kind comes from: 1 text, 2 visual, 3 colour.
DetectionOf(kind, d) ==
    IF kind \in { "color_indicator_captcha", "button_captcha" } THEN 3
    ELSE IF kind \in { "checkbox_captcha", "image_grid_captcha" } THEN 2
    ELSE IF kind = "text_captcha" /\ kind \notin DOMAIN d.confidence_scores THEN 2
    ELSE 1

\* C23: one check reports every kind it detects: captcha_types names each
\* kind the text patterns match and each kind whose visual or colour signal
\* is in the image, the text kinds first, then the visual, then the colour
\* kinds, with no selection by confidence or priority; a run makes its
\* captcha check before its email check and records what each one found.
C23_AllKindsReported ==
    /\ Detected1 =>
          LET d == detection[1]
          IN  /\ image.decodable =>
                    { k \in { TextKinds[p] : p \in DOMAIN TextKinds } :
                          \E n \in 1 .. PatternCount(k) : << k, n >> \in SimulatedText }
                        \subseteq KindsOf(d)
              /\ image.rectangles <=> "checkbox_captcha" \in KindsOf(d)
              /\ image.large <=> "image_grid_captcha" \in KindsOf(d)
              /\ image.text_regions <=> "text_captcha" \in KindsOf(d)
              /\ image.green <=> "color_indicator_captcha" \in KindsOf(d)
              /\ image.blue <=> "button_captcha" \in KindsOf(d)
              /\ \A p, q \in DOMAIN d.captcha_types :
                    p < q => DetectionOf(d.captcha_types[p], d)
                                 <= DetectionOf(d.captcha_types[q], d)
    /\ prog = "backup" =>
          \A j, k \in DOMAIN results :
              (results[j].type = "email_verification_required"
                  /\ results[k].type = "captcha_detected") => k < j

\* One check that reports four kinds, two of them without a score.
C23_Witness ==
    /\ Detected1
    /\ image.rectangles /\ image.blue
    /\ Len(detection[1].captcha_types) = 4
    /\ detection[1].captcha_types[1] = "recaptcha"

\* C30: every kind in the detector's output has a recorded confidence above
\* 0.2, and a kind whose text signals sum to 0.2 or less is not reported.
C30_ReportedAboveThreshold ==
    Detected1 =>
        LET d == detection[1]
        IN  /\ \A k \in KindsOf(d) :
                  /\ k \in DOMAIN d.confidence_scores
                  /\ d.confidence_scores[k] > 2
            /\ \A p \in DOMAIN TextKinds :
                  TextConfidence(TextKinds[p], SimulatedText) <= 2 =>
                      TextKinds[p] \notin KindsOf(d)

-----------------------------------------------------------------------------
(* Properties of the notifications *)

\* C27: a channel is reported as failed only after retry_count sends on it:
\* a send that fails is made again, up to retry_count sends in total.
C27_FailedChannelRetried ==
    prog = "notification" =>
        \A p \in DOMAIN sendLog :
            /\ sendLog[p].sends <= RetryCount
            /\ ~sendLog[p].ok => sendLog[p].sends = RetryCount

-----------------------------------------------------------------------------
(* Properties of two concurrent runs *)

\* The action types a run's own records can name: those of its action list,
\* and the marks of the records that are about no action.
OwnActions(inst) ==
    { inst.actions[k] : k \in DOMAIN inst.actions } \cup { "-", "initial_goto" }

\* Every record an instance holds is about the instance's own actions.
OwnRecords(inst) ==
    /\ \A k \in DOMAIN inst.results : inst.results[k].action \in OwnActions(inst)
    /\ \A k \in DOMAIN inst.logs : inst.logs[k].action \in OwnActions(inst)
    /\ \A k \in DOMAIN inst.trace : inst.trace[k].at \in 1 .. (Len(inst.actions) + 1)
    /\ \A k \in DOMAIN inst.reports :
          /\ inst.reports[k].logs = inst.logs
          /\ inst.reports[k].screenshots = inst.screenshots
          /\ inst.reports[k].success =>
                inst.reports[k].results =
                    (IF prog = "advanced" THEN inst.extracted_data ELSE inst.results)
    /\ inst.closeCount <= 1

\* C26: two runs in one event loop share no mutable state: a step of the
\* running run changes nothing of the suspended one (its browser, page,
\* results, logs, screenshots, report), a run that is resumed finds every
\* attribute as it left it, and each run only ever holds records of its own
\* actions, as it does when it runs alone.
C26_RunsIsolated ==
    /\ [](OwnRecords(Running) /\ OwnRecords(other))
    /\ [][cur' = cur => other' = other]_vars
    /\ [][cur' # cur => (other' = Running /\ Running' = other)]_vars

\* Both runs are over, each with records of its own, after at least one
\* switch in the middle of a run.
C26_Witness ==
    /\ pc = "done" /\ other.pc = "done"
    /\ cur = 1
    /\ results # << >> /\ other.results # << >>
    /\ \E k \in DOMAIN results : results[k].action = "fill"
    /\ \E k \in DOMAIN other.results : other.results[k].action = "click"

-----------------------------------------------------------------------------
(* Termination *)

\* The script is over: the run returned or was left, and main is through.
Ended == pc \in { "done", "exit" }

\* C31: no suspension blocks indefinitely: every started script eventually
\* ends, a run with its browser closed if it had launched one.
C31_EveryRunEnds ==
    (prog \in RunProgs \cup { "intelligent", "aisolver" }) =>
        <>(Ended /\ (browser => closeCount >= 1))

-----------------------------------------------------------------------------
(* Properties of AICaptchaSolver *)

\* solve_captcha of AICaptchaSolver returned for a captcha of the type.
AcsReturned(type) ==
    prog = "aisolver" /\ captcha_type = type /\ Finished /\ Len(solved) = 1

\* C35: solve_captcha of AICaptchaSolver never raises: whatever the type and
\* whatever fails, it ends by returning one dict, and a dict with success
\* False has confidence 0.0 and an empty solution.
C35_FailureShape ==
    (prog = "aisolver" /\ Finished) =>
        /\ Len(solved) = 1
        /\ escaped = "none"
        /\ ~solved[1].success =>
              (solved[1].confidence = 0 /\ solved[1].solution = << >>)

\* An unknown type went through solve_generic and every method failed.
C35_Witness ==
    /\ AcsReturned("unknown")
    /\ ~solved[1].success
    /\ solved[1].method = "all_methods_failed"
    /\ Len(calls) = 3

\* The value of 'a op b' over the non-negative integers, the quotient
\* rounded down.
ValueOf(a, op, b) ==
    CASE op = "+" -> a + b
      [] op = "-" -> a - b
      [] op = "*" -> a * b
      [] op = "/" -> a \div b

\* solve_math_captcha was called on a text in which it found 'a op b'.
MathCalled ==
    /\ AcsReturned("math_captcha")
    /\ Len(calls) = 1
    /\ ocr.kind = "parsed"

\* C36: for a recognised text 'a op b' solve_math_captcha returns the
\* decimal text of a+b, a-b, a*b or floor(a/b) with success True; for a
\* division by 0 it returns a failure with confidence 0.0 and no solution.
C36_MathSolution ==
    MathCalled =>
        IF ocr.op = "/" /\ ocr.b = 0
        THEN /\ ~solved[1].success
             /\ solved[1].confidence = 0
             /\ solved[1].solution = << >>
        ELSE /\ solved[1].success
             /\ solved[1].solution = Str(ValueOf(ocr.a, ocr.op, ocr.b))

\* '2 - 12' was solved: a negative value of two digits.
C36_Witness ==
    /\ MathCalled
    /\ ocr = Ocr("parsed", 2, "-", 12)
    /\ solved[1].solution = << "-", "1", "0" >>

\* C32: AICaptchaSolver has no object detector, so solving an
\* image-selection captcha fails: it never returns a successful result,
\* whose cells could only be a random draw.
C32_ImageSelectionFails ==
    AcsReturned("image_selection") => ~solved[1].success

-----------------------------------------------------------------------------
(* The result of an obstacle check *)

\* The checks of the trace whose page queries raised.
QueryFailedAt ==
    { c \in CheckAt : c > 1 /\ trace[c - 1] = Event("query", trace[c].at, "raised") }

\* C33: a check that failed never returns what a check that ran and found
\* nothing returns: a page check whose queries raised does not answer 'no
\* captcha', and detect_from_screenshot marks with 'error' exactly the
\* results of an image it could not analyse.
C33_FailedCheckDistinct ==
    /\ IsRun => \A c \in QueryFailedAt : trace[c].res # "none"
    /\ (prog = "detector" /\ Finished) =>
          /\ detection[1].error <=> ~image.decodable
          /\ detection[1].error => ~detection[1].captcha_detected

-----------------------------------------------------------------------------
(* Actions of an unsupported type *)

\* The action types the running script has a branch for.
Supported == IF prog = "advanced" THEN AdvSupported ELSE BkSupported

\* The action has a type, and the script has no branch for it.
Unsupported(type) == type # "notype" /\ type \notin Supported

\* C34: in both scripts an action whose type is not a supported one calls no
\* browser operation and gives a failed result, never a success or
\* completed one.
C34_UnsupportedTypeFails ==
    IsRun =>
        /\ \A p \in ExecAt : Unsupported(actions[trace[p].at]) => ExecFailed(trace[p])
        /\ (ExecAt # {} /\ Unsupported(actions[LastExec.at])) => last.ops = << >>

-----------------------------------------------------------------------------
(* The cascade of NotificationSystem.send *)

\* The order of the channels the contact type fixes.
OrderFor(c) ==
    IF c \in { "email", "plus_at" } THEN << "email", "sms", "push" >>
    ELSE IF c = "phone" THEN << "sms", "push", "email" >>
    ELSE << "push", "email", "sms" >>

\* C37: send with the cascade strategy tries the channels in the order its
\* contact type fixes, tries no channel after one that succeeded, and
\* returns False exactly when all three channels were tried and failed.
C37_CascadeOrder ==
    prog = "notification" =>
        /\ Len(sendLog) <= 3
        /\ \A p \in DOMAIN sendLog : sendLog[p].channel = OrderFor(contact)[p]
        /\ \A p \in DOMAIN sendLog : p < Len(sendLog) => ~sendLog[p].ok
        /\ Finished =>
              /\ Len(sendResult) = 1
              /\ sendResult[1] = sendLog[Len(sendLog)].ok
              /\ ~sendResult[1] <=>
                    (Len(sendLog) = 3 /\ \A p \in DOMAIN sendLog : ~sendLog[p].ok)

\* A contact that starts with '+' and holds an '@': email failed, sms
\* succeeded and push was not tried.
C37_Witness ==
    /\ prog = "notification" /\ Finished
    /\ contact = "plus_at"
    /\ Len(sendLog) = 2
    /\ sendLog[2].channel = "sms" /\ sendLog[2].ok
    /\ sendResult = << TRUE >>

-----------------------------------------------------------------------------
(* deduplicate_services *)

\* The positions of the input at which an id occurs, and the first of them.
Occurrences(id) == { k \in DOMAIN services : services[k].id = id }

First(id) == CHOOSE k \in Occurrences(id) : \A j \in Occurrences(id) : k <= j

Elements(list) == { list[n] : n \in DOMAIN list }

\* C40: deduplicate_services returns services with pairwise distinct ids,
\* one per id of the input, ordered by the first occurrence of their ids,
\* each the first service of its id; for an id that occurred more than once
\* the 'sources' of that service are the distinct sources the id was seen
\* in, each once.
C40_Deduplicated ==
    (prog = "updater" /\ pc = "deduplicated") =>
        /\ \A m, n \in DOMAIN unique : unique[m].id = unique[n].id => m = n
        /\ { unique[n].id : n \in DOMAIN unique } = { services[k].id : k \in DOMAIN services }
        /\ \A m, n \in DOMAIN unique : m < n => First(unique[m].id) < First(unique[n].id)
        /\ \A n \in DOMAIN unique :
              LET first == services[First(unique[n].id)]
              IN /\ unique[n].source = first.source
                 /\ unique[n].name = first.name
                 /\ Cardinality(Occurrences(unique[n].id)) > 1 =>
                       /\ Elements(unique[n].sources)
                              = { services[k].source : k \in Occurrences(unique[n].id) }
                       /\ Len(unique[n].sources) = Cardinality(Elements(unique[n].sources))

\* An id seen three times, in sources a, b and a again, was deduplicated.
C40_Witness ==
    /\ prog = "updater" /\ pc = "deduplicated"
    /\ Len(services) = 3
    /\ \A k \in 1..3 : services[k].id = "x"
    /\ <<services[1].source, services[2].source, services[3].source>> = <<"a", "b", "a">>
    /\ Len(unique) = 1
    /\ unique[1].sources = <<"a", "b">>

-----------------------------------------------------------------------------
(* USER_SERVICE_INSTANCES *)

\* The ids under which an instance is stored.
Stored == { id \in InstanceIds : instances[id] # NoInstance }

\* C38: whatever requests were handled, every entry of
\* USER_SERVICE_INSTANCES names a registered module and holds a config with
\* every required field of that module, and only a connect_service request
\* adds or replaces an entry.
C38_InstancesValid ==
    /\ [](prog = "hub" =>
            \A id \in Stored :
                /\ instances[id].module_id \in Registered
                /\ RequiredConfigFields(instances[id].module_id) \subseteq instances[id].config)
    /\ [][instances' # instances => (response'.op = "connect" /\ nreq' = nreq + 1)]_vars

\* Two instances are stored and a third request, an action, was handled.
C38_Witness ==
    /\ prog = "hub"
    /\ Stored = InstanceIds
    /\ nreq = 3
    /\ response.op = "action"

\* C39: a connect_service request that ends in an error response (404, 400,
\* 500) leaves USER_SERVICE_INSTANCES as it was.
C39_FailedConnectStoresNothing ==
    [][(nreq' = nreq + 1 /\ response'.op = "connect" /\ response'.status >= 400)
           => instances' = instances]_vars

====
